---- MODULE Spec2Model ----
(***************************************************************************)
(* Publish orchestration pipeline of yt-upload-automation.                 *)
(*                                                                         *)
(* The model follows src/domain/services.py (PublishService) working       *)
(* against the metadata table written by                                   *)
(* src/adapters/google_sheets_repository.py.  The media store and the      *)
(* media uploader are ports: each call to them has an outcome the          *)
(* environment chooses (a return value or one of the exception classes of  *)
(* src/ports/).  One step of the batch loop of publish_all_ready_tasks is  *)
(* one action; the whole of publish_task runs inside that action and       *)
(* leaves the ordered log of its external calls in `last`.                 *)
(***************************************************************************)
EXTENDS Integers, Sequences, FiniteSets, TLC

\* ------------------------------------------------------------------ bounds
NumRows == 2            \* data rows of the metadata table
MaxRetriesBound == 3    \* largest --max-retries value explored
MaxRuns == 2            \* invocations of publish_all_ready_tasks explored
MaxOps == 3             \* repository calls explored on the raw table

\* ------------------------------------------------------------- vocabulary
None == "<None>"        \* Python's None

READY == "READY"
IN_PROGRESS == "IN_PROGRESS"
SCHEDULED == "SCHEDULED"
FAILED == "FAILED"
DRY_RUN_OK == "DRY_RUN_OK"
UPLOADING == "UPLOADING"

\* `if x:` on an Optional[str]
Truthy(x) == x # None /\ x # ""

\* `x or None` / `x or default`
OrElse(x, d) == IF Truthy(x) THEN x ELSE d

Rows == 1..NumRows

\* Sheet row number of the k-th data row (row 1 is the header).
RowIndex(r) == r + 1

VARIABLES
    sheet,      \* the metadata table: data row -> cells
    cfg,        \* PublishService fields max_retries, dry_run, media_uploader
    pc,         \* "idle" | "loop" | "exited": no process yet, a process inside
                \* the loop of publish_all_ready_tasks, a process that ended
    tasks,      \* the list returned by get_ready_tasks
    idx,        \* position of the for loop in `tasks`
    stats,      \* the counters of publish_all_ready_tasks
    runs,       \* invocations of publish_all_ready_tasks so far
    last,       \* the publish_task call made by the latest loop step
    proc,       \* how the latest run of main ended and its exit status
    write_failed, \* some metadata write of the current run raised
    grid,       \* the raw table: rows of cells, the header row first
    header_map, \* GoogleSheetsMetadataRepository._header_map
    fetched,    \* the Tasks the latest get_ready_tasks on the raw table returned
    got,        \* the latest repository call on the raw table and the one before
    ops,        \* repository calls made on the raw table
    files,      \* the media files on disk: path -> content
    stage_dirs, \* LocalMediaStore.stage_dirs: the stages that have a directory
    store_result \* the latest mark_in_progress call on the local media store

mainVars == <<sheet, cfg, pc, tasks, idx, stats, runs, last, proc, write_failed>>
cellVars == <<grid, header_map, fetched, got, ops>>
mediaVars == <<files, stage_dirs, store_result>>
vars == <<mainVars, cellVars, mediaVars>>

\* ------------------------------------------------- collaborators' outcomes
\* update_task_status / increment_attempts either return or raise.
RepoInProgressOutcomes == {"ok", "MetadataRepositoryError", "Exception"}
RepoOutcomes == {"ok", "error"}
\* mark_in_progress returns the same reference, returns a relocated one,
\* raises AdapterError, or raises some other exception.
StoreOutcomes == {"same", "moved", "AdapterError", "Exception"}
\* publish_media returns a successful or an unsuccessful PublishResult (the
\* latter with or without an error_message), or raises RetryableError,
\* PermanentError, a plain MediaUploaderError or any other exception.
UploadOutcomes == {"success", "unsuccessful", "unsuccessful_nomsg",
                   "RetryableError", "PermanentError", "MediaUploaderError",
                   "Exception"}
\* upload_thumbnail returns True, returns False or raises.
ThumbOutcomes == {"true", "false", "raise"}

\* str(e) of the exceptions and the fields of the results the ports hand back
RepoErrStr == "sheets api error"
AdapterErrStr == "[FILE_NOT_FOUND] Source media not found"
ExceptionStr == "boom"
UploadErrStr(o) ==
    CASE o = "RetryableError" -> "Temporary error 503"
      [] o = "PermanentError" -> "Invalid request"
      [] o = "MediaUploaderError" -> "Unexpected error during upload: io"
      [] o = "Exception" -> ExceptionStr
      [] o = "unsuccessful" -> "upload rejected"
      [] OTHER -> None

\* The media id the platform assigns to the upload of a row.
MediaIdOf(row) == "vid_" \o ToString(row)

\* An uploader double: its first up_k calls raise RetryableError, every later
\* call ends in up_final (up_k = 0 and up_final = "RetryableError": it always
\* raises).  The doubles explored either behave the same on every call or
\* recover after up_k transient failures.
UploaderOutcome(env, call) ==
    IF call <= env.up_k THEN "RetryableError" ELSE env.up_final

\* One environment: the outcome of every external call publish_task can make.
Envs ==
    { e \in [repo_inprog : RepoInProgressOutcomes,
             repo_terminal : RepoOutcomes,
             repo_incr : RepoOutcomes,
             store : StoreOutcomes,
             up_k : 0..(MaxRetriesBound - 1),
             up_final : UploadOutcomes,
             thumb : ThumbOutcomes] :
        e.up_k > 0 => e.up_final = "success" }

\* ------------------------------------------------------ metadata repository
\* datetime.utcnow().isoformat() + "Z": the clock is not modelled, every
\* stamp written reads the same.
UtcNowZ == "<utcnow>Z"

\* GoogleSheetsMetadataRepository.update_task_status: the cells one successful
\* batchUpdate writes.  IN_PROGRESS is shown as UPLOADING; an argument left
\* None leaves its cell alone; updated_at is always stamped.
DisplayStatus(status) == IF status = IN_PROGRESS THEN UPLOADING ELSE status

update_task_status(sh, row, status, youtube_video_id, error_message, video_file_path) ==
    [sh EXCEPT ![row] =
        [@ EXCEPT !.status = DisplayStatus(status),
                  !.youtube_video_id =
                      IF youtube_video_id # None THEN youtube_video_id ELSE @,
                  !.error_message =
                      IF error_message # None THEN error_message ELSE @,
                  !.video_file_path =
                      IF video_file_path # None THEN video_file_path ELSE @,
                  !.updated_at = UtcNowZ]]

\* GoogleSheetsMetadataRepository.increment_attempts: writes task.attempts + 1
\* and the attempt's time to the row, then the new count to the Task object.
increment_attempts_sheet(sh, task) ==
    [sh EXCEPT ![task.row].attempts = task.attempts + 1,
               ![task.row].last_attempt_at = UtcNowZ]

increment_attempts_task(task) ==
    [task EXCEPT !.attempts = task.attempts + 1]

\* A variant of _parse_row that does not read the platform id column.
parse_row_without_platform_id(sh, row) ==
    [row |-> row,
     row_index |-> RowIndex(row),
     media_reference |-> sh[row].video_file_path,
     thumbnail_reference |-> OrElse(sh[row].thumbnail_path, None),
     status |-> sh[row].status,
     platform_media_id |-> None,
     error_message |-> OrElse(sh[row].error_message, None),
     attempts |-> sh[row].attempts]

\* GoogleSheetsMetadataRepository._parse_row for a row that passes validation.
parse_row(sh, row) ==
    [row |-> row,
     row_index |-> RowIndex(row),
     media_reference |-> sh[row].video_file_path,
     thumbnail_reference |-> OrElse(sh[row].thumbnail_path, None),
     status |-> sh[row].status,
     platform_media_id |-> OrElse(sh[row].youtube_video_id, None),
     error_message |-> OrElse(sh[row].error_message, None),
     attempts |-> sh[row].attempts]

\* The ValidationError _parse_row raises for a row, None if it raises none.
\* Of its checks the model keeps the one on the title cell.
ValidationErrorOf(cells) ==
    IF cells.title = "" THEN "title is required" ELSE None

\* GoogleSheetsMetadataRepository._mark_row_failed: FAILED and the message
\* are written, no other cell.
mark_row_failed(sh, row, error_message) ==
    [sh EXCEPT ![row].status = FAILED, ![row].error_message = error_message]

\* GoogleSheetsMetadataRepository.get_ready_tasks, the list it returns: the
\* rows whose status cell equals the ready status and that pass validation,
\* in physical order.
RECURSIVE ReadyFrom(_, _)
\* A variant of get_ready_tasks that also returns the rows an earlier
\* invocation left at UPLOADING.
ReadyFrom_resume_uploading(sh, row) ==
    IF row > NumRows THEN <<>>
    ELSE IF sh[row].status \notin {READY, UPLOADING} THEN ReadyFrom(sh, row + 1)
    ELSE IF ValidationErrorOf(sh[row]) # None THEN ReadyFrom(sh, row + 1)
    ELSE <<parse_row(sh, row)>> \o ReadyFrom(sh, row + 1)

ReadyFrom(sh, row) ==
    IF row > NumRows THEN <<>>
    ELSE IF sh[row].status # READY THEN ReadyFrom(sh, row + 1)
    ELSE IF ValidationErrorOf(sh[row]) # None THEN ReadyFrom(sh, row + 1)
    ELSE <<parse_row(sh, row)>> \o ReadyFrom(sh, row + 1)

get_ready_tasks(sh) == ReadyFrom(sh, 1)

\* GoogleSheetsMetadataRepository.get_ready_tasks, what it leaves in the
\* table: every ready row that fails validation is marked FAILED, best
\* effort (marks[r] is the outcome of the batchUpdate for row r).
RejectedRows(sh) ==
    {r \in Rows : sh[r].status = READY /\ ValidationErrorOf(sh[r]) # None}

get_ready_tasks_sheet(sh, marks) ==
    [r \in Rows |->
        IF r \in RejectedRows(sh) /\ marks[r] = "ok"
        THEN mark_row_failed(sh, r, ValidationErrorOf(sh[r]))[r]
        ELSE sh[r]]

\* ------------------------------------------------------------ call records
CallUpdate(row, status, vid, err) ==
    [op |-> "update_task_status", row |-> row, status |-> status,
     youtube_video_id |-> vid, error_message |-> err, ref |-> None]
CallMark(row, ref) ==
    [op |-> "mark_in_progress", row |-> row, status |-> None,
     youtube_video_id |-> None, error_message |-> None, ref |-> ref]
CallIncrement(row) ==
    [op |-> "increment_attempts", row |-> row, status |-> None,
     youtube_video_id |-> None, error_message |-> None, ref |-> None]
CallPublish(row, ref) ==
    [op |-> "publish_media", row |-> row, status |-> None,
     youtube_video_id |-> None, error_message |-> None, ref |-> ref]
CallThumbnail(row, vid, ref) ==
    [op |-> "upload_thumbnail", row |-> row, status |-> None,
     youtube_video_id |-> vid, error_message |-> None, ref |-> ref]

\* ---------------------------------------------------------- PublishService
\* The state threaded through one publish_task call: the table, the Task
\* object and the calls made so far.
Ctx(sh, task) == [sheet |-> sh, task |-> task, calls |-> <<>>]

\* self.metadata_repo.update_task_status(task, status, ...) with the given
\* outcome: the call is made; the table changes only if it returns.
RepoUpdate(c, status, vid, err, outcome) ==
    [c EXCEPT !.calls = Append(@, CallUpdate(c.task.row, status, vid, err)),
              !.sheet = IF outcome = "ok"
                        THEN update_task_status(@, c.task.row, status, vid, err, None)
                        ELSE @]

\* PublishService._mark_failed: a FAILED write whose failure is swallowed.
mark_failed(c, error_message, outcome) ==
    RepoUpdate(c, FAILED, None, error_message, outcome)

\* media_store.mark_in_progress(task.media_reference)
InProgressRef(ref) == "in_progress/" \o ref

\* A variant of step 2 that drops the reference mark_in_progress returns.
MarkInProgress_discard_ref(c, outcome) ==
    [c EXCEPT !.calls = Append(@, CallMark(c.task.row, c.task.media_reference))]

MarkInProgress(c, outcome) ==
    LET called == [c EXCEPT !.calls = Append(@, CallMark(c.task.row, c.task.media_reference))]
    IN  IF outcome = "moved"
        THEN [called EXCEPT !.task.media_reference = InProgressRef(@)]
        ELSE called

\* A variant of _upload_media that reports every failed attempt with one
\* fixed message.
ResultOf_fixed_message(row, o) ==
    IF o = "success"
    THEN [success |-> TRUE, media_id |-> MediaIdOf(row), error_message |-> None]
    ELSE [success |-> FALSE, media_id |-> None, error_message |-> "Upload failed"]

\* The PublishResult of one publish_media call as _upload_media returns it:
\* every exception becomes an unsuccessful result carrying its message.
ResultOf(row, o) ==
    CASE o = "success" ->
            [success |-> TRUE, media_id |-> MediaIdOf(row), error_message |-> None]
      [] o \in {"unsuccessful", "unsuccessful_nomsg"} ->
            [success |-> FALSE, media_id |-> None, error_message |-> UploadErrStr(o)]
      [] o \in {"RetryableError", "PermanentError", "MediaUploaderError"} ->
            [success |-> FALSE, media_id |-> None, error_message |-> UploadErrStr(o)]
      [] OTHER ->
            [success |-> FALSE, media_id |-> None,
             error_message |-> "Unexpected error during upload: " \o UploadErrStr(o)]

\* A variant of the attempt without the inner try: an increment_attempts
\* that raises ends the attempt before publish_media.
Attempt_increment_fatal(c, env) ==
    LET c1 == [c EXCEPT !.calls = Append(@, CallIncrement(c.task.row)),
                        !.sheet = IF env.repo_incr = "ok"
                                  THEN increment_attempts_sheet(@, c.task)
                                  ELSE @,
                        !.task = IF env.repo_incr = "ok"
                                 THEN increment_attempts_task(@)
                                 ELSE @]
    IN  IF env.repo_incr = "ok"
        THEN [c1 EXCEPT !.calls = Append(@, CallPublish(c.task.row, c.task.media_reference))]
        ELSE c1

\* One attempt: increment_attempts (best effort), then publish_media with the
\* task's current media reference.
Attempt(c, env) ==
    LET c1 == [c EXCEPT !.calls = Append(@, CallIncrement(c.task.row)),
                        !.sheet = IF env.repo_incr = "ok"
                                  THEN increment_attempts_sheet(@, c.task)
                                  ELSE @,
                        !.task = IF env.repo_incr = "ok"
                                 THEN increment_attempts_task(@)
                                 ELSE @]
    IN  [c1 EXCEPT !.calls = Append(@, CallPublish(c.task.row, c.task.media_reference))]

NumCalls(calls, op) == Cardinality({i \in DOMAIN calls : calls[i].op = op})

\* A variant of _upload_media that attempts again, up to max_retries times,
\* after any attempt that did not succeed.
RECURSIVE RetryAnyFailure(_, _, _, _)
RetryAnyFailure(c, conf, env, n) ==
    LET c1 == Attempt(c, env)
        o == UploaderOutcome(env, n)
    IN  IF o # "success" /\ n < conf.max_retries
        THEN RetryAnyFailure(c1, conf, env, n + 1)
        ELSE [ctx |-> c1, result |-> ResultOf(c.task.row, o)]

upload_media_retry_any_failure(c, conf, env) == RetryAnyFailure(c, conf, env, 1)

\* PublishService._upload_media: a single attempt, whatever max_retries is.
upload_media(c, conf, env) ==
    [ctx |-> Attempt(c, env),
     result |-> ResultOf(c.task.row, UploaderOutcome(env, 1))]

\* PublishService._upload_thumbnail: best effort, nothing escapes.
upload_thumbnail(c, media_id, outcome) ==
    IF ~Truthy(c.task.thumbnail_reference) THEN c
    ELSE [c EXCEPT !.calls =
            Append(@, CallThumbnail(c.task.row, media_id, c.task.thumbnail_reference))]

\* A step of publish_task either returns from the method (done, with the
\* returned string, or "raised" when an exception leaves it) or falls through.
Return(outcome, c) == [done |-> TRUE, outcome |-> outcome, ctx |-> c]
Continue(c) == [done |-> FALSE, outcome |-> "none", ctx |-> c]

\* Idempotency gate: `if task.platform_media_id:`
AlreadyUploaded_never(task) == FALSE

AlreadyUploaded(task) == Truthy(task.platform_media_id)

\* A variant of step 1 with no `except Exception` clause: an exception that
\* is not a MetadataRepositoryError leaves publish_task.
StepMarkTask_repo_error_only(c, env) ==
    LET c1 == RepoUpdate(c, IN_PROGRESS, None, None, env.repo_inprog) IN
    CASE env.repo_inprog = "MetadataRepositoryError" ->
            Return("failed",
                mark_failed(c1, "Failed to mark task as IN_PROGRESS in metadata repository: "
                                \o RepoErrStr, env.repo_terminal))
      [] env.repo_inprog = "Exception" -> Return("raised", c1)
      [] OTHER -> Continue(c1)

\* A variant of step 1 that leaves the IN_PROGRESS write out.
StepMarkTask_no_write(c, env) == Continue(c)

\* Step 1: write IN_PROGRESS to the metadata repository.
StepMarkTask(c, env) ==
    LET c1 == RepoUpdate(c, IN_PROGRESS, None, None, env.repo_inprog) IN
    CASE env.repo_inprog = "MetadataRepositoryError" ->
            Return("failed",
                mark_failed(c1, "Failed to mark task as IN_PROGRESS in metadata repository: "
                                \o RepoErrStr, env.repo_terminal))
      [] env.repo_inprog = "Exception" ->
            Return("failed",
                mark_failed(c1, "Unexpected error marking task as IN_PROGRESS: "
                                \o ExceptionStr, env.repo_terminal))
      [] OTHER -> Continue(c1)

\* A variant of step 2 that logs the adapter's error and goes on.
StepMarkMedia_swallow(c, env) ==
    LET c2 == MarkInProgress(c, env.store) IN
    IF env.store = "Exception" THEN Return("raised", c2) ELSE Continue(c2)

\* Step 2: media_store.mark_in_progress; only AdapterError is caught.
StepMarkMedia(c, env) ==
    LET c2 == MarkInProgress(c, env.store) IN
    CASE env.store = "AdapterError" ->
            Return("failed",
                mark_failed(c2, "Failed to mark media as IN_PROGRESS: " \o AdapterErrStr,
                            env.repo_terminal))
      [] env.store = "Exception" -> Return("raised", c2)
      [] OTHER -> Continue(c2)

\* `if self.dry_run or self.media_uploader is None:`
DryRunMode_flag_only(conf) == conf.dry_run

DryRunMode(conf) == conf.dry_run \/ ~conf.has_uploader

\* Dry run: DRY_RUN_OK is written (best effort) and "success" returned.
StepDryRun(c, conf, env) ==
    IF DryRunMode(conf)
    THEN Return("success", RepoUpdate(c, DRY_RUN_OK, None, None, env.repo_terminal))
    ELSE Continue(c)

\* A variant of the write-back in which a SCHEDULED write that raises is
\* followed by a FAILED write.
StepFinish_failed_after_scheduled(c, result, env) ==
    IF result.success
    THEN LET c3 == IF Truthy(c.task.thumbnail_reference)
                   THEN upload_thumbnail(c, result.media_id, env.thumb)
                   ELSE c
             c4 == RepoUpdate(c3, SCHEDULED, result.media_id, None, env.repo_terminal)
         IN  IF env.repo_terminal = "ok"
             THEN Return("success", c4)
             ELSE Return("failed", mark_failed(c4, RepoErrStr, env.repo_terminal))
    ELSE Return("failed",
            mark_failed(c, OrElse(result.error_message, "Unknown error"),
                        env.repo_terminal))

\* A variant of the write-back in which a thumbnail that was not uploaded
\* fails the task.
StepFinish_thumbnail_fatal(c, result, env) ==
    IF result.success
    THEN LET c3 == IF Truthy(c.task.thumbnail_reference)
                   THEN upload_thumbnail(c, result.media_id, env.thumb)
                   ELSE c
         IN  IF Truthy(c.task.thumbnail_reference) /\ env.thumb # "true"
             THEN Return("failed", mark_failed(c3, "thumbnail upload failed", env.repo_terminal))
             ELSE Return("success",
                     RepoUpdate(c3, SCHEDULED, result.media_id, None, env.repo_terminal))
    ELSE Return("failed",
            mark_failed(c, OrElse(result.error_message, "Unknown error"),
                        env.repo_terminal))

\* A variant of the write-back that reports the task failed when the
\* SCHEDULED write raises.
StepFinish_write_failure_fails(c, result, env) ==
    IF result.success
    THEN LET c3 == IF Truthy(c.task.thumbnail_reference)
                   THEN upload_thumbnail(c, result.media_id, env.thumb)
                   ELSE c
         IN  Return(IF env.repo_terminal = "ok" THEN "success" ELSE "failed",
                RepoUpdate(c3, SCHEDULED, result.media_id, None, env.repo_terminal))
    ELSE Return("failed",
            mark_failed(c, OrElse(result.error_message, "Unknown error"),
                        env.repo_terminal))

\* After _upload_media: thumbnail and SCHEDULED on success, FAILED otherwise.
StepFinish(c, result, env) ==
    IF result.success
    THEN LET c3 == IF Truthy(c.task.thumbnail_reference)
                   THEN upload_thumbnail(c, result.media_id, env.thumb)
                   ELSE c
         IN  Return("success",
                RepoUpdate(c3, SCHEDULED, result.media_id, None, env.repo_terminal))
    ELSE Return("failed",
            mark_failed(c, OrElse(result.error_message, "Unknown error"),
                        env.repo_terminal))

\* PublishService.publish_task.
publish_task(sh, conf, task, env) ==
    LET c0 == Ctx(sh, task) IN
    IF AlreadyUploaded(task) THEN Return("skipped", c0)
    ELSE
    LET s1 == StepMarkTask(c0, env) IN
    IF s1.done THEN s1
    ELSE
    LET s2 == StepMarkMedia(s1.ctx, env) IN
    IF s2.done THEN s2
    ELSE
    LET s3 == StepDryRun(s2.ctx, conf, env) IN
    IF s3.done THEN s3
    ELSE
    LET u == upload_media(s3.ctx, conf, env) IN
    StepFinish(u.ctx, u.result, env)

\* --------------------------------------------------------------- the table
\* The kinds of data row a table holds before the first run:
\*   "retry"     READY, with a thumbnail and the error message of an earlier
\*               failure (set back to READY by the operator)
\*   "fresh"     READY, nothing else filled in
\*   "uploaded"  READY although it already carries a platform id
\*   "scheduled" SCHEDULED, uploaded earlier
\*   "untitled"  READY, its title cell emptied
\*   "reopened"  uploaded earlier, put back to READY with its title emptied
RowKinds == <<"retry", "fresh", "uploaded", "scheduled", "untitled", "reopened">>

InitCells(row, kind) ==
    [status |-> IF kind = "scheduled" THEN SCHEDULED ELSE READY,
     title |-> IF kind \in {"untitled", "reopened"} THEN "" ELSE "Video " \o ToString(row),
     video_file_path |-> "video_" \o ToString(row) \o ".mp4",
     thumbnail_path |-> IF kind = "retry" THEN "thumb.jpg" ELSE "",
     youtube_video_id |-> IF kind \in {"uploaded", "scheduled", "reopened"}
                          THEN "old_vid" ELSE "",
     error_message |-> IF kind = "retry" THEN "old error" ELSE "",
     attempts |-> IF kind \in {"retry", "scheduled", "reopened"} THEN 1 ELSE 0,
     last_attempt_at |-> IF kind \in {"retry", "scheduled", "reopened"}
                         THEN "2024-01-01T00:00:00Z" ELSE "",
     updated_at |-> IF kind \in {"fresh", "untitled"} THEN "" ELSE "2024-01-01T00:00:00Z"]

\* The tables explored: each puts the kinds on consecutive rows, starting
\* from a different kind, so that every kind occurs at every position.
InitTables ==
    { [r \in Rows |-> InitCells(r, RowKinds[((r - 1 + k) % Len(RowKinds)) + 1])] :
        k \in 1..Len(RowKinds) }

NoEnv == [repo_inprog |-> "ok", repo_terminal |-> "ok", repo_incr |-> "ok",
          store |-> "same", up_k |-> 0, up_final |-> "success", thumb |-> "true"]
ZeroStats == [processed |-> 0, succeeded |-> 0, failed |-> 0, skipped |-> 0]

NoTask == [row |-> 0, row_index |-> 0, media_reference |-> "", thumbnail_reference |-> None,
           status |-> READY, platform_media_id |-> None, error_message |-> None,
           attempts |-> 0]
NoCall == [row |-> 0, outcome |-> "none", calls |-> <<>>, env |-> NoEnv,
           task_in |-> NoTask, task |-> NoTask, sheet_in |-> InitCells(0, "fresh"),
           stats_in |-> ZeroStats]

\* The process running main: still in the workflow, or ended by sys.exit or
\* by falling off the end of main.
EXIT_OK == 0
EXIT_ERROR == 1
EXIT_INTERRUPTED == 130
Running == [how |-> "running", code |-> EXIT_OK]
Exited(how, code) == [how |-> how, code |-> code]

\* ------------------------------------------------------- local media store
\* LocalMediaStore over a small disk.  A media reference is a path: a bare
\* file name (a file of the working directory, where the table's references
\* point) or a name under one of the stage directories.
MediaStage_IN_PROGRESS == "IN_PROGRESS"
MediaStage_UPLOADED == "UPLOADED"
MediaStages == {MediaStage_IN_PROGRESS, MediaStage_UPLOADED}

\* The directories the acceptance tests configure.
StageDir(stage) == IF stage = MediaStage_IN_PROGRESS THEN "in_progress" ELSE "uploaded"
WorkDir == "."
Dirs == {WorkDir} \cup {StageDir(st) : st \in MediaStages}

MediaNames == {"video_" \o ToString(r) \o ".mp4" : r \in Rows}

\* dir / name
PathIn(dir, name) == IF dir = WorkDir THEN name ELSE dir \o "/" \o name
AllPaths == {PathIn(d, n) : d \in Dirs, n \in MediaNames}
\* Path(p).parent and Path(p).name
ParentOf(p) == CHOOSE d \in Dirs : \E n \in MediaNames : PathIn(d, n) = p
NameOf(p) == CHOOSE n \in MediaNames : \E d \in Dirs : PathIn(d, n) = p

\* A disk without media files; files[p] = None: no file at p.
NoFiles == [p \in AllPaths |-> None]

\* What a stage call hands back: the new reference and the disk it leaves, or
\* the code of the AdapterError it raises.
StoreOk(ref, fs) == [kind |-> "ok", code |-> None, ref |-> ref, files |-> fs]
StoreError(code, fs) == [kind |-> "error", code |-> code, ref |-> None, files |-> fs]
NoStoreCall == [kind |-> "none", code |-> None, ref |-> None, ref_in |-> None,
                files_in |-> NoFiles]

\* A variant of transition that does not look at the destination before the
\* rename, which then replaces a file found there.
transition_overwrite(fs, dirs, media_ref, to_stage, rename) ==
    LET dest_path == PathIn(StageDir(to_stage), NameOf(media_ref)) IN
    IF to_stage \notin dirs THEN StoreError("STAGE_NOT_CONFIGURED", fs)
    ELSE IF fs[media_ref] = None THEN StoreError("FILE_NOT_FOUND", fs)
    ELSE IF ParentOf(media_ref) = StageDir(to_stage) THEN StoreOk(media_ref, fs)
    ELSE IF rename = "PermissionError" THEN StoreError("PERMISSION_DENIED", fs)
    ELSE IF rename = "OSError" THEN StoreError("MOVE_FAILED", fs)
    ELSE StoreOk(dest_path, [fs EXCEPT ![dest_path] = fs[media_ref], ![media_ref] = None])

\* LocalMediaStore.transition: the checks in the order of the code, then the
\* rename, whose outcome (done, PermissionError, another OSError) the
\* operating system chooses.  Directories in place of files are not modelled.
transition(fs, dirs, media_ref, to_stage, rename) ==
    LET dest_path == PathIn(StageDir(to_stage), NameOf(media_ref)) IN
    IF to_stage \notin dirs THEN StoreError("STAGE_NOT_CONFIGURED", fs)
    ELSE IF fs[media_ref] = None THEN StoreError("FILE_NOT_FOUND", fs)
    ELSE IF ParentOf(media_ref) = StageDir(to_stage) THEN StoreOk(media_ref, fs)
    ELSE IF fs[dest_path] # None THEN StoreError("FILE_EXISTS", fs)
    ELSE IF rename = "PermissionError" THEN StoreError("PERMISSION_DENIED", fs)
    ELSE IF rename = "OSError" THEN StoreError("MOVE_FAILED", fs)
    ELSE StoreOk(dest_path, [fs EXCEPT ![dest_path] = fs[media_ref], ![media_ref] = None])

\* LocalMediaStore.mark_in_progress: the same reference when no in-progress
\* directory is configured, else the transition to IN_PROGRESS.
mark_in_progress(fs, dirs, ref, rename) ==
    IF MediaStage_IN_PROGRESS \notin dirs THEN StoreOk(ref, fs)
    ELSE transition(fs, dirs, ref, MediaStage_IN_PROGRESS, rename)

\* The local media store is not in use.
MediaIdle ==
    /\ files = NoFiles
    /\ stage_dirs = {}
    /\ store_result = NoStoreCall

\* The raw table is not in use.
CellsIdle ==
    /\ grid = <<>>
    /\ header_map = [kind |-> "none", map |-> <<>>, missing |-> {}, found |-> {}]
    /\ fetched = <<>>
    /\ got = "none"
    /\ ops = 0

\* PublishService.__init__ defaults: max_retries = 1, dry_run = False.
DefaultCfg == [max_retries |-> 1, dry_run |-> FALSE, has_uploader |-> TRUE]

Init ==
    /\ sheet \in InitTables
    /\ cfg = DefaultCfg
    /\ pc = "idle"
    /\ tasks = <<>>
    /\ idx = 1
    /\ stats = ZeroStats
    /\ runs = 0
    /\ last = NoCall
    /\ proc = Running
    /\ write_failed = FALSE
    /\ CellsIdle
    /\ MediaIdle

\* An environment with the outcomes of the calls publish_task never reaches
\* pinned to one value, so that equal runs are not told apart.
Consumed(env, conf, task) ==
    LET gate == AlreadyUploaded(task)
        noMark == gate \/ env.repo_inprog # "ok"
        noUpload == noMark \/ env.store \notin {"same", "moved"}
                    \/ DryRunMode(conf)
        noThumb == noUpload \/ UploaderOutcome(env, 1) # "success"
                   \/ ~Truthy(task.thumbnail_reference)
        noTerminal == gate \/ (~noMark /\ env.store = "Exception")
    IN  /\ gate => env.repo_inprog = "ok"
        /\ noMark => env.store = "same"
        /\ noUpload => env.repo_incr = "ok" /\ env.up_k = 0 /\ env.up_final = "success"
        /\ noThumb => env.thumb = "true"
        /\ noTerminal => env.repo_terminal = "ok"

\* A variant of the loop body that lets an exception leaving publish_task go
\* by uncounted.
Count_raise_uncounted(st, outcome) ==
    IF outcome = "raised" THEN st
    ELSE [st EXCEPT !.processed = @ + 1,
                    !.skipped = IF outcome = "skipped" THEN @ + 1 ELSE @,
                    !.succeeded = IF outcome = "success" THEN @ + 1 ELSE @,
                    !.failed = IF outcome \notin {"skipped", "success"} THEN @ + 1 ELSE @]

\* Some metadata write of a publish_task call raised (the outcomes of the
\* writes the call never reaches are pinned to "ok").
WriteRaised(env) ==
    env.repo_inprog # "ok" \/ env.repo_terminal # "ok" \/ env.repo_incr # "ok"

\* The counters publish_all_ready_tasks adds for one task.
Count(st, outcome) ==
    [st EXCEPT !.processed = @ + 1,
               !.skipped = IF outcome = "skipped" THEN @ + 1 ELSE @,
               !.succeeded = IF outcome = "success" THEN @ + 1 ELSE @,
               !.failed = IF outcome \notin {"skipped", "success"} THEN @ + 1 ELSE @]

\* main / create_publish_service / publish_all_ready_tasks up to the loop:
\* the service is built from the command line and the ready set is fetched,
\* which marks the rows that fail validation.
StartBatch ==
    /\ pc = "idle"
    /\ runs < MaxRuns
    /\ \E n \in 1..MaxRetriesBound, dry \in BOOLEAN, up \in BOOLEAN :
          cfg' = [max_retries |-> n, dry_run |-> dry, has_uploader |-> up]
    /\ tasks' = get_ready_tasks(sheet)
    /\ \E marks \in [Rows -> RepoOutcomes] :
          /\ \A r \in Rows \ RejectedRows(sheet) : marks[r] = "ok"
          /\ sheet' = get_ready_tasks_sheet(sheet, marks)
          /\ write_failed' = (\E r \in Rows : marks[r] # "ok")
    /\ idx' = 1
    /\ stats' = ZeroStats
    /\ runs' = runs + 1
    /\ pc' = "loop"
    /\ last' = NoCall
    /\ proc' = Running
    /\ UNCHANGED <<cellVars, mediaVars>>

\* One iteration of the for loop of publish_all_ready_tasks.
LoopStep ==
    /\ pc = "loop"
    /\ idx <= Len(tasks)
    /\ \E env \in Envs :
          /\ Consumed(env, cfg, tasks[idx])
          /\ LET r == publish_task(sheet, cfg, tasks[idx], env) IN
             /\ sheet' = r.ctx.sheet
             /\ stats' = Count(stats, r.outcome)
             /\ last' = [row |-> tasks[idx].row, outcome |-> r.outcome,
                         calls |-> r.ctx.calls, env |-> env,
                         task_in |-> tasks[idx], task |-> r.ctx.task,
                         sheet_in |-> sheet[tasks[idx].row], stats_in |-> stats]
             /\ write_failed' = (write_failed \/ WriteRaised(env))
    /\ idx' = idx + 1
    /\ UNCHANGED <<cfg, pc, tasks, runs, proc, cellVars, mediaVars>>

\* A variant of main that ends normally whatever the summary says.
ExitCodeOf_ignore_failed(st) == EXIT_OK

\* main after the workflow returned: `if stats["failed"] > 0: sys.exit(1)`,
\* else the end of main.
ExitCodeOf(st) == IF st.failed > 0 THEN EXIT_ERROR ELSE EXIT_OK

\* The loop is over: publish_all_ready_tasks returns the counters and main
\* ends the process.
FinishBatch ==
    /\ pc = "loop"
    /\ idx > Len(tasks)
    /\ pc' = "exited"
    /\ proc' = Exited("returned", ExitCodeOf(stats))
    /\ UNCHANGED <<sheet, cfg, tasks, idx, stats, runs, last, write_failed, cellVars, mediaVars>>

\* KeyboardInterrupt while the workflow runs: no `except Exception` on the way
\* catches it, main's `except KeyboardInterrupt` exits with 130.  The model
\* takes an interrupt between two publish_task calls.
Interrupt ==
    /\ pc = "loop"
    /\ pc' = "exited"
    /\ proc' = Exited("interrupted", EXIT_INTERRUPTED)
    /\ UNCHANGED <<sheet, cfg, tasks, idx, stats, runs, last, write_failed, cellVars, mediaVars>>

\* get_ready_tasks raises MetadataRepositoryError (the API call failed):
\* publish_all_ready_tasks does not catch it, main's `except Exception` exits
\* with 1 before any task is processed.
FatalError ==
    /\ pc = "idle"
    /\ runs < MaxRuns
    /\ \E n \in 1..MaxRetriesBound, dry \in BOOLEAN, up \in BOOLEAN :
          cfg' = [max_retries |-> n, dry_run |-> dry, has_uploader |-> up]
    /\ tasks' = <<>>
    /\ idx' = 1
    /\ stats' = ZeroStats
    /\ runs' = runs + 1
    /\ last' = NoCall
    /\ pc' = "exited"
    /\ proc' = Exited("fatal", EXIT_ERROR)
    /\ write_failed' = FALSE
    /\ UNCHANGED <<sheet, cellVars, mediaVars>>

\* The command is run again: a new process starts with nothing in memory;
\* the table is all that is left of the earlier run.
Restart ==
    /\ pc = "exited"
    /\ runs < MaxRuns
    /\ pc' = "idle"
    /\ cfg' = DefaultCfg
    /\ tasks' = <<>>
    /\ idx' = 1
    /\ stats' = ZeroStats
    /\ last' = NoCall
    /\ proc' = Running
    /\ write_failed' = FALSE
    /\ UNCHANGED <<sheet, runs, cellVars, mediaVars>>

Next == StartBatch \/ LoopStep \/ FinishBatch \/ Interrupt \/ FatalError \/ Restart

Spec == Init /\ [][Next]_vars


\* ============================================ the repository on raw cells
\* GoogleSheetsMetadataRepository seen from the Sheets API: `grid` is the
\* list of rows values().get returns, the header row first, every row a list
\* of cell strings.  A row's position in grid is its sheet row number.
\* Python indexes cells from 0, TLA+ sequences from 1.
Range(s) == {s[i] : i \in DOMAIN s}
Max(S) == CHOOSE m \in S : \A n \in S : n <= m

\* The keys of COLUMN_MAP in the order of their indices.
COLUMN_NAMES ==
    <<"task_id", "status", "title", "video_file_path", "description", "tags",
      "category_id", "thumbnail_path", "publish_at", "privacy_status",
      "youtube_video_id", "error_message", "attempts", "last_attempt_at",
      "created_at", "updated_at">>

COLUMN_MAP ==
    [n \in Range(COLUMN_NAMES) |->
        (CHOOSE i \in DOMAIN COLUMN_NAMES : COLUMN_NAMES[i] = n) - 1]

EXPECTED_HEADERS == Range(COLUMN_NAMES)

REQUIRED_COLUMNS ==
    {"task_id", "video_file_path", "title", "description", "publish_at",
     "status", "youtube_video_id", "error_message"}

\* str.strip() and str.lower() on the spellings that occur in the tables.
Strip(s) ==
    CASE s = " Task_ID " -> "Task_ID"
      [] s = "  task_id  " -> "task_id"
      [] s = " status" -> "status"
      [] s = "title " -> "title"
      [] s = "  video_file_path" -> "video_file_path"
      [] s = " " -> ""
      [] OTHER -> s

Lower(s) ==
    CASE s = "Task_ID" -> "task_id"
      [] s = "TASK_ID" -> "task_id"
      [] s = "STATUS" -> "status"
      [] s = "Status" -> "status"
      [] s = "TITLE" -> "title"
      [] s = "Video_File_Path" -> "video_file_path"
      [] OTHER -> s

\* _build_header_map: kind "none" is the None it returns (positional
\* fallback), kind "error" the MetadataRepositoryError it raises with the
\* missing and the found names, kind "map" the name -> index table.
NoHeaderMap == [kind |-> "none", map |-> <<>>, missing |-> {}, found |-> {}]

\* A variant of _build_header_map that returns the name map without looking
\* for the required columns.
build_header_map_skip_required(header) ==
    LET names == {Lower(Strip(header[i])) : i \in DOMAIN header} \ {""}
        map == [n \in names |->
                  Max({i - 1 : i \in {j \in DOMAIN header : Lower(Strip(header[j])) = n}})]
        found == names \cap EXPECTED_HEADERS
    IN  IF header = <<>> THEN NoHeaderMap
        ELSE IF found = {} THEN NoHeaderMap
        ELSE [kind |-> "map", map |-> map, missing |-> {}, found |-> {}]

\* A variant of _build_header_map that looks for the required columns in
\* every header that is not empty.
build_header_map_always_required(header) ==
    LET names == {Lower(Strip(header[i])) : i \in DOMAIN header} \ {""}
        map == [n \in names |->
                  Max({i - 1 : i \in {j \in DOMAIN header : Lower(Strip(header[j])) = n}})]
        found == names \cap EXPECTED_HEADERS
        missing == REQUIRED_COLUMNS \ names
    IN  IF header = <<>> THEN NoHeaderMap
        ELSE IF missing # {}
        THEN [kind |-> "error", map |-> <<>>, missing |-> missing, found |-> found]
        ELSE [kind |-> "map", map |-> map, missing |-> {}, found |-> {}]

build_header_map(header) ==
    LET names == {Lower(Strip(header[i])) : i \in DOMAIN header} \ {""}
        map == [n \in names |->
                  Max({i - 1 : i \in {j \in DOMAIN header : Lower(Strip(header[j])) = n}})]
        found == names \cap EXPECTED_HEADERS
        missing == REQUIRED_COLUMNS \ names
    IN  IF header = <<>> THEN NoHeaderMap
        ELSE IF found = {} THEN NoHeaderMap
        ELSE IF missing # {}
        THEN [kind |-> "error", map |-> <<>>, missing |-> missing, found |-> found]
        ELSE [kind |-> "map", map |-> map, missing |-> {}, found |-> {}]

\* A variant of _get_cell that always takes the index from COLUMN_MAP.
get_cell_positional(row, column_name, default, hm) ==
    LET index == IF column_name \in DOMAIN COLUMN_MAP THEN COLUMN_MAP[column_name] ELSE -1
    IN  IF index < 0 \/ index >= Len(row) THEN default
        ELSE IF Strip(row[index + 1]) = "" THEN default
        ELSE Strip(row[index + 1])

\* _get_cell: the index comes from the header map when it knows the name,
\* from COLUMN_MAP otherwise; an absent or empty cell gives the default.
get_cell(row, column_name, default, hm) ==
    LET name == Lower(Strip(column_name))
        index == IF hm.kind = "map" /\ name \in DOMAIN hm.map THEN hm.map[name]
                 ELSE IF column_name \in DOMAIN COLUMN_MAP THEN COLUMN_MAP[column_name]
                 ELSE -1
    IN  IF index < 0 \/ index >= Len(row) THEN default
        ELSE IF Strip(row[index + 1]) = "" THEN default
        ELSE Strip(row[index + 1])

\* row + [""] * (n - len(row))
PadRow(row, n) ==
    IF Len(row) < n THEN row \o [i \in 1..(n - Len(row)) |-> ""] ELSE row

\* _parse_int and _parse_datetime on the literals that occur in the tables:
\* ok is FALSE where they raise ValidationError.
IntLiterals == <<"0", "1", "2", "3">>

parse_int(v) ==
    IF ~Truthy(v) THEN [ok |-> TRUE, value |-> 0]
    ELSE IF v = "-1" THEN [ok |-> TRUE, value |-> -1]
    ELSE IF \E i \in DOMAIN IntLiterals : IntLiterals[i] = v
    THEN [ok |-> TRUE, value |-> (CHOOSE i \in DOMAIN IntLiterals : IntLiterals[i] = v) - 1]
    ELSE [ok |-> FALSE, value |-> 0]

IsoDatetimes == {"2024-06-01T10:00:00Z", "2024-01-01T00:00:00Z", UtcNowZ}

parse_datetime(v) ==
    IF ~Truthy(v) THEN [ok |-> TRUE, value |-> None]
    ELSE IF v \in IsoDatetimes THEN [ok |-> TRUE, value |-> v]
    ELSE [ok |-> FALSE, value |-> None]

\* The message of the ValidationError _parse_datetime raises.
InvalidDatetime(v) == "Invalid datetime format: " \o v \o ". Use ISO 8601 format."

\* [t.strip() for t in tags_str.split(",") if t.strip()]
split_tags(tags_str) ==
    CASE ~Truthy(tags_str) -> <<>>
      [] tags_str = "tag1,tag2" -> <<"tag1", "tag2">>
      [] OTHER -> <<tags_str>>

PRIVACY_STATUSES == {"public", "unlisted", "private"}
TASK_STATUSES == {READY, IN_PROGRESS, SCHEDULED, FAILED, "VALIDATED", DRY_RUN_OK}

\* _parse_row: the Task built from a row, or the message of the first
\* ValidationError raised on the way (error is None when there is none).
parse_row_cells(row, row_index, hm) ==
    LET task_id == get_cell(row, "task_id", "", hm)
        title == get_cell(row, "title", "", hm)
        media_reference == get_cell(row, "video_file_path", "", hm)
        status == get_cell(row, "status", "", hm)
        description == get_cell(row, "description", "", hm)
        tags_str == get_cell(row, "tags", "", hm)
        category_id == get_cell(row, "category_id", "22", hm)
        thumbnail_reference == get_cell(row, "thumbnail_path", None, hm)
        publish_at_str == get_cell(row, "publish_at", None, hm)
        publish_at == parse_datetime(publish_at_str)
        privacy_status == get_cell(row, "privacy_status", "private", hm)
        platform_media_id == get_cell(row, "youtube_video_id", None, hm)
        error_message == get_cell(row, "error_message", None, hm)
        attempts_str == get_cell(row, "attempts", "0", hm)
        attempts == parse_int(attempts_str)
        last_attempt_at_str == get_cell(row, "last_attempt_at", None, hm)
        last_attempt_at == parse_datetime(last_attempt_at_str)
        created_at_str == get_cell(row, "created_at", None, hm)
        created_at == parse_datetime(created_at_str)
        updated_at_str == get_cell(row, "updated_at", None, hm)
        updated_at == parse_datetime(updated_at_str)
        error ==
            CASE task_id = "" -> "task_id is required"
              [] title = "" -> "title is required"
              [] media_reference = "" -> "video_file_path (media_reference) is required"
              [] status = "" -> "status is required"
              [] Len(title) > 100 ->
                    "title exceeds 100 characters: " \o ToString(Len(title))
              [] Len(description) > 5000 ->
                    "description exceeds 5000 characters: " \o ToString(Len(description))
              [] Len(tags_str) > 500 ->
                    "tags exceed 500 characters: " \o ToString(Len(tags_str))
              [] ~publish_at.ok -> InvalidDatetime(publish_at_str)
              [] privacy_status \notin PRIVACY_STATUSES ->
                    "Invalid privacy_status: " \o privacy_status
              [] status \notin TASK_STATUSES -> "Invalid status: " \o status
              [] ~attempts.ok -> "Invalid integer: " \o attempts_str
              [] attempts.value < 0 ->
                    "attempts must be non-negative: " \o attempts_str
              [] ~last_attempt_at.ok -> InvalidDatetime(last_attempt_at_str)
              [] ~created_at.ok -> InvalidDatetime(created_at_str)
              [] ~updated_at.ok -> InvalidDatetime(updated_at_str)
              [] OTHER -> None
    IN  [error |-> error,
         task |-> [task_id |-> task_id,
                   row_index |-> row_index,
                   media_reference |-> media_reference,
                   thumbnail_reference |-> thumbnail_reference,
                   title |-> title,
                   description |-> description,
                   tags |-> split_tags(tags_str),
                   category_id |-> category_id,
                   publish_at |-> publish_at.value,
                   privacy_status |-> privacy_status,
                   status |-> status,
                   platform_media_id |-> OrElse(platform_media_id, None),
                   error_message |-> OrElse(error_message, None),
                   attempts |-> attempts.value,
                   last_attempt_at |-> last_attempt_at.value,
                   created_at |-> created_at.value,
                   updated_at |-> updated_at.value]]

\* _ensure_header_map: the cached map, or the one built from the header row
\* when nothing is cached (None is cached as nothing).
ensure_header_map(g, cached) ==
    IF cached.kind = "map" THEN cached
    ELSE IF g = <<>> THEN NoHeaderMap
    ELSE build_header_map(g[1])

\* A variant of _get_column_index that always takes COLUMN_MAP.
get_column_index_positional(column_name, hm) == COLUMN_MAP[column_name]

\* _get_column_index, given the map _ensure_header_map left.
get_column_index(column_name, hm) ==
    IF hm.kind = "map" /\ Lower(Strip(column_name)) \in DOMAIN hm.map
    THEN hm.map[Lower(Strip(column_name))]
    ELSE COLUMN_MAP[column_name]

\* A variant of the cell write that sends the whole row, blank but for the
\* one value.
SetCell_whole_row(g, row_index, index, value) ==
    [g EXCEPT ![row_index] =
        [i \in 1..Len(PadRow(@, index + 1)) |-> IF i = index + 1 THEN value ELSE ""]]

\* One cell of a batchUpdate: the sheet fills the row up to the column.
SetCell(g, row_index, index, value) ==
    [g EXCEPT ![row_index] = [PadRow(@, index + 1) EXCEPT ![index + 1] = value]]

\* _mark_row_failed, when its batchUpdate goes through.
mark_row_failed_cells(g, row_index, error_message, hm) ==
    SetCell(SetCell(g, row_index, get_column_index("status", hm), FAILED),
            row_index, get_column_index("error_message", hm), error_message)

\* The loop of get_ready_tasks over the data rows from sheet row k on: the
\* tasks collected and the table with the rejected rows marked (write_ok
\* tells whether the marking batchUpdates go through).
RECURSIVE ReadRows(_, _, _, _, _)
\* A variant of the loop that returns the Task of a row even when its
\* validation fails.
ReadRows_keep_invalid(g, k, hm, pad_length, write_ok) ==
    IF k > Len(g) THEN [tasks |-> <<>>, grid |-> g, rejected |-> {}]
    ELSE
    LET padded_row == PadRow(g[k], pad_length)
        rest == ReadRows(g, k + 1, hm, pad_length, write_ok)
        parsed == parse_row_cells(padded_row, k, hm)
    IN  IF get_cell(padded_row, "status", "", hm) # READY THEN rest
        ELSE IF parsed.error = None
        THEN [rest EXCEPT !.tasks = <<parsed.task>> \o @]
        ELSE [rest EXCEPT !.tasks = <<parsed.task>> \o @,
                          !.rejected = @ \cup {k},
                          !.grid = IF write_ok
                                   THEN mark_row_failed_cells(@, k, parsed.error,
                                                              ensure_header_map(g, hm))
                                   ELSE @]

\* A variant of the loop without the check of the status cell.
ReadRows_ignore_status(g, k, hm, pad_length, write_ok) ==
    IF k > Len(g) THEN [tasks |-> <<>>, grid |-> g, rejected |-> {}]
    ELSE
    LET padded_row == PadRow(g[k], pad_length)
        rest == ReadRows(g, k + 1, hm, pad_length, write_ok)
        parsed == parse_row_cells(padded_row, k, hm)
    IN  IF parsed.error = None
        THEN [rest EXCEPT !.tasks = <<parsed.task>> \o @]
        ELSE [rest EXCEPT !.rejected = @ \cup {k},
                          !.grid = IF write_ok
                                   THEN mark_row_failed_cells(@, k, parsed.error,
                                                              ensure_header_map(g, hm))
                                   ELSE @]

\* A variant of the loop that ends the read at the first row that fails
\* validation.
ReadRows_stop_at_invalid(g, k, hm, pad_length, write_ok) ==
    IF k > Len(g) THEN [tasks |-> <<>>, grid |-> g, rejected |-> {}]
    ELSE
    LET padded_row == PadRow(g[k], pad_length)
        rest == ReadRows(g, k + 1, hm, pad_length, write_ok)
        parsed == parse_row_cells(padded_row, k, hm)
    IN  IF get_cell(padded_row, "status", "", hm) # READY THEN rest
        ELSE IF parsed.error = None
        THEN [rest EXCEPT !.tasks = <<parsed.task>> \o @]
        ELSE [tasks |-> <<>>,
              grid |-> IF write_ok
                       THEN mark_row_failed_cells(g, k, parsed.error,
                                                  ensure_header_map(g, hm))
                       ELSE g,
              rejected |-> {k}]

ReadRows(g, k, hm, pad_length, write_ok) ==
    IF k > Len(g) THEN [tasks |-> <<>>, grid |-> g, rejected |-> {}]
    ELSE
    LET padded_row == PadRow(g[k], pad_length)
        rest == ReadRows(g, k + 1, hm, pad_length, write_ok)
        parsed == parse_row_cells(padded_row, k, hm)
    IN  IF get_cell(padded_row, "status", "", hm) # READY THEN rest
        ELSE IF parsed.error = None
        THEN [rest EXCEPT !.tasks = <<parsed.task>> \o @]
        ELSE [rest EXCEPT !.rejected = @ \cup {k},
                          !.grid = IF write_ok
                                   THEN mark_row_failed_cells(@, k, parsed.error,
                                                              ensure_header_map(g, hm))
                                   ELSE @]

\* get_ready_tasks: kind "error" when it raises MetadataRepositoryError for a
\* header that lacks required columns, else the tasks, the table it leaves
\* and the header map it caches.  header_reads counts the values().get calls
\* _ensure_header_map makes on the way (two _get_column_index calls for each
\* row marked, each reading the header again when nothing is cached), writes
\* the batchUpdate calls.
Only(S) == CHOOSE x \in S : TRUE

get_ready_tasks_with(g, cached, write_ok, hm) ==
    IF hm.kind = "error"
    THEN [kind |-> "error", tasks |-> <<>>, grid |-> g, header_map |-> cached,
          rejected |-> {}, missing |-> hm.missing, found |-> hm.found,
          header_reads |-> 0, writes |-> 0]
    ELSE Only({ [kind |-> "tasks", tasks |-> read.tasks, grid |-> read.grid,
                 header_map |-> hm, rejected |-> read.rejected,
                 missing |-> {}, found |-> {},
                 header_reads |-> IF hm.kind = "map" THEN 0
                                  ELSE 2 * Cardinality(read.rejected),
                 writes |-> Cardinality(read.rejected)] :
                read \in { ReadRows(g, 2, hm, pad_length, write_ok) :
                           pad_length \in { IF hm.kind = "map"
                                            THEN Max(Range(hm.map)) + 1
                                            ELSE Len(COLUMN_NAMES) } } })

get_ready_tasks_cells(g, cached, write_ok) ==
    IF g = <<>>
    THEN [kind |-> "tasks", tasks |-> <<>>, grid |-> g, header_map |-> cached,
          rejected |-> {}, missing |-> {}, found |-> {},
          header_reads |-> 0, writes |-> 0]
    ELSE Only({ get_ready_tasks_with(g, cached, write_ok, hm) :
                hm \in {build_header_map(g[1])} })

\* update_task_status on the raw table: one batchUpdate with the status cell
\* (IN_PROGRESS shown as UPLOADING), the cells of the arguments that are not
\* None and the updated_at cell; raises when the header cannot be resolved.
\* Every _get_column_index call goes through _ensure_header_map, which reads
\* the header again unless a name map is cached (header_reads).
update_task_status_cells(g, cached, task, status, youtube_video_id, error_message, video_file_path) ==
    LET hm == ensure_header_map(g, cached)
        r == task.row_index
        g1 == SetCell(g, r, get_column_index("status", hm), DisplayStatus(status))
        g2 == IF youtube_video_id # None
              THEN SetCell(g1, r, get_column_index("youtube_video_id", hm), youtube_video_id)
              ELSE g1
        g3 == IF error_message # None
              THEN SetCell(g2, r, get_column_index("error_message", hm), error_message)
              ELSE g2
        g4 == IF video_file_path # None
              THEN SetCell(g3, r, get_column_index("video_file_path", hm), video_file_path)
              ELSE g3
        g5 == SetCell(g4, r, get_column_index("updated_at", hm), UtcNowZ)
        lookups == 2 + (IF youtube_video_id # None THEN 1 ELSE 0)
                     + (IF error_message # None THEN 1 ELSE 0)
                     + (IF video_file_path # None THEN 1 ELSE 0)
    IN  IF hm.kind = "error"
        THEN [kind |-> "error", grid |-> g, header_map |-> cached, header_reads |-> 1]
        ELSE [kind |-> "ok", grid |-> g5, header_map |-> hm,
              header_reads |-> IF cached.kind = "map" THEN 0
                               ELSE IF hm.kind = "map" THEN 1
                               ELSE lookups]

\* -------------------------------------------------------- tables explored
\* The header orders: the standard one, the shuffled one of the unit tests,
\* the standard one with two names spelled with capitals and blanks, the
\* required names alone in each of their rotations, a header without any
\* expected name and an empty one (positional fallback), and headers that
\* lack required names.
StandardHeader == COLUMN_NAMES

ShuffledHeader ==
    <<"youtube_video_id", "error_message", "status", "video_file_path", "task_id",
      "title", "attempts", "category_id", "description", "privacy_status", "tags",
      "thumbnail_path", "publish_at", "last_attempt_at", "created_at", "updated_at">>

SpelledHeader == <<" Task_ID ", "STATUS">> \o SubSeq(COLUMN_NAMES, 3, Len(COLUMN_NAMES))

RequiredList ==
    <<"task_id", "video_file_path", "title", "description", "publish_at", "status",
      "youtube_video_id", "error_message">>

Rotate(s, k) == [i \in DOMAIN s |-> s[((i - 1 + k) % Len(s)) + 1]]

RequiredHeaders == {Rotate(RequiredList, k) : k \in 0..(Len(RequiredList) - 1)}

LegacyHeader == <<"id", "state">>

\* An empty first row.
EmptyHeader == <<>>

\* The headers that resolve to the positional map.
PositionalHeaders == {LegacyHeader, EmptyHeader}

\* Headers with expected names that lack required ones: the two of the unit
\* tests and one that also carries a name the repository does not know.
PartialHeaders ==
    { <<"task_id", "status", "title", "description">>,
      <<"task_id", "description">>,
      <<"notes", "STATUS", "title">> }

\* The headers of the unit tests that name task_id, status, title and
\* video_file_path: these four alone (plain, with blanks around the names, in
\* mixed case) and in another order with three optional columns.
FourNameHeaders ==
    { <<"task_id", "status", "title", "video_file_path">>,
      <<"  task_id  ", " status", "title ", "  video_file_path">>,
      <<"TASK_ID", "Status", "TITLE", "Video_File_Path">>,
      <<"status", "title", "task_id", "video_file_path", "description", "tags",
        "privacy_status">> }

\* The standard header after a notes column was put in front and the
\* updated_at column dropped: sixteen columns, every required name present.
AnnotatedHeader == <<"notes">> \o SubSeq(COLUMN_NAMES, 1, Len(COLUMN_NAMES) - 1)

Headers ==
    {StandardHeader, ShuffledHeader, SpelledHeader, AnnotatedHeader}
        \cup PositionalHeaders \cup RequiredHeaders \cup PartialHeaders
        \cup FourNameHeaders

\* The cell of sheet row r under the column of the given name: a ready task
\* with every content field filled in; the row `untitled` has no title.
CellOf(r, name, untitled) ==
    CASE name = "task_id" -> "task_" \o ToString(r)
      [] name = "status" -> READY
      [] name = "title" -> IF r = untitled THEN "" ELSE "Title " \o ToString(r)
      [] name = "video_file_path" -> "video_" \o ToString(r) \o ".mp4"
      [] name = "description" -> "Desc " \o ToString(r)
      [] name = "tags" -> "tag1,tag2"
      [] name = "category_id" -> "27"
      [] name = "publish_at" -> "2024-06-01T10:00:00Z"
      [] name = "privacy_status" -> "unlisted"
      [] name = "attempts" -> "2"
      [] OTHER -> ""

DataRow(header, r, untitled) ==
    IF header \in PositionalHeaders
    THEN [i \in DOMAIN COLUMN_NAMES |-> CellOf(r, COLUMN_NAMES[i], untitled)]
    ELSE [i \in DOMAIN header |-> CellOf(r, Lower(Strip(header[i])), untitled)]

\* The table with the given header and n data rows (sheet rows 2..n+1).
GridOf(header, n, untitled) ==
    <<header>> \o [k \in 1..n |-> DataRow(header, k + 1, untitled)]

\* A string of n copies of s.
RECURSIVE Repeat(_, _)
Repeat(s, n) ==
    IF n = 0 THEN ""
    ELSE IF n % 2 = 0 THEN LET half == Repeat(s, n \div 2) IN half \o half
    ELSE s \o Repeat(s, n - 1)

\* The limits _parse_row checks.
MAX_TITLE == 100
MAX_DESCRIPTION == 5000
MAX_TAGS == 500

\* Cells at and around what _parse_row accepts: a field at its limit and one
\* character past it, a required field left empty or blank, a value outside
\* an enumeration, a number or a date that does not parse, a status that is
\* not the ready one.
OddCells ==
    { [column |-> "task_id", value |-> ""],
      [column |-> "video_file_path", value |-> " "],
      [column |-> "title", value |-> Repeat("t", MAX_TITLE)],
      [column |-> "title", value |-> Repeat("t", MAX_TITLE + 1)],
      [column |-> "description", value |-> Repeat("d", MAX_DESCRIPTION)],
      [column |-> "description", value |-> Repeat("d", MAX_DESCRIPTION + 1)],
      [column |-> "tags", value |-> Repeat("g", MAX_TAGS)],
      [column |-> "tags", value |-> Repeat("g", MAX_TAGS + 1)],
      [column |-> "attempts", value |-> "-1"],
      [column |-> "attempts", value |-> "many"],
      [column |-> "privacy_status", value |-> "secret"],
      [column |-> "privacy_status", value |-> ""],
      [column |-> "publish_at", value |-> "tomorrow"],
      [column |-> "status", value |-> SCHEDULED],
      [column |-> "status", value |-> "ready"] }

\* The table with one odd cell in sheet row r.
OddGrid(header, n, r, odd) ==
    [GridOf(header, n, 0) EXCEPT
        ![r] = [i \in DOMAIN @ |->
                   IF Lower(Strip(header[i])) = odd.column THEN odd.value ELSE @[i]]]

OddGrids ==
    { OddGrid(h, n, r, odd) :
        h \in {StandardHeader, ShuffledHeader}, n \in {NumRows}, r \in 2..(NumRows + 1),
        odd \in OddCells }

InitGrids ==
    UNION { { GridOf(h, n, u) : u \in {0} \cup 2..(n + 1) } :
            h \in Headers, n \in 1..NumRows }
    \cup OddGrids

\* ------------------------------------------------------- repository steps
NoOp == [op |-> "none", kind |-> "none", row |-> 0, status |-> None,
         youtube_video_id |-> None, error_message |-> None, video_file_path |-> None,
         missing |-> {}, found |-> {}, rejected |-> {}, header_reads |-> 0, writes |-> 0,
         prev_op |-> "none", prev_kind |-> "none", prev_row |-> 0, prev_status |-> None]

\* The orchestrator is not running / the raw table is not in use.
MainIdle ==
    /\ sheet = [r \in Rows |-> InitCells(r, "fresh")]
    /\ cfg = DefaultCfg
    /\ pc = "idle"
    /\ tasks = <<>>
    /\ idx = 1
    /\ stats = ZeroStats
    /\ runs = 0
    /\ last = NoCall
    /\ proc = Running
    /\ write_failed = FALSE

SheetInit ==
    /\ grid \in InitGrids
    /\ header_map = NoHeaderMap
    /\ fetched = <<>>
    /\ got = NoOp
    /\ ops = 0
    /\ MainIdle
    /\ MediaIdle

\* repo.get_ready_tasks()
GetReadyTasks ==
    /\ ops < MaxOps
    /\ \E write_ok \in BOOLEAN :
          \E r \in {get_ready_tasks_cells(grid, header_map, write_ok)} :
          /\ r.rejected = {} => write_ok
          /\ grid' = r.grid
          /\ header_map' = r.header_map
          /\ fetched' = IF r.kind = "tasks" THEN r.tasks ELSE fetched
          /\ got' = [NoOp EXCEPT !.op = "get_ready_tasks", !.kind = r.kind,
                                 !.missing = r.missing, !.found = r.found,
                                 !.rejected = r.rejected,
                                 !.header_reads = r.header_reads, !.writes = r.writes,
                                 !.prev_op = got.op, !.prev_kind = got.kind,
                                 !.prev_row = got.row, !.prev_status = got.status]
    /\ ops' = ops + 1
    /\ UNCHANGED <<mainVars, mediaVars>>

\* The status writes a caller makes for a fetched task.
StatusWrites ==
    { [status |-> SCHEDULED, youtube_video_id |-> "X", error_message |-> None,
       video_file_path |-> None],
      [status |-> FAILED, youtube_video_id |-> None, error_message |-> "upload rejected",
       video_file_path |-> None],
      [status |-> IN_PROGRESS, youtube_video_id |-> None, error_message |-> None,
       video_file_path |-> None],
      [status |-> IN_PROGRESS, youtube_video_id |-> None, error_message |-> None,
       video_file_path |-> "in_progress/video.mp4"] }

\* repo.update_task_status(task, ...) for a task of the latest fetched list
UpdateTaskStatus ==
    /\ ops < MaxOps
    /\ \E i \in DOMAIN fetched, w \in StatusWrites :
          \E r \in {update_task_status_cells(grid, header_map, fetched[i], w.status,
                                             w.youtube_video_id, w.error_message,
                                             w.video_file_path)} :
          /\ grid' = r.grid
          /\ header_map' = r.header_map
          /\ got' = [op |-> "update_task_status", kind |-> r.kind,
                     row |-> fetched[i].row_index, status |-> w.status,
                     youtube_video_id |-> w.youtube_video_id,
                     error_message |-> w.error_message,
                     video_file_path |-> w.video_file_path,
                     missing |-> {}, found |-> {}, rejected |-> {},
                     header_reads |-> r.header_reads,
                     writes |-> IF r.kind = "ok" THEN 1 ELSE 0,
                     prev_op |-> got.op, prev_kind |-> got.kind,
                     prev_row |-> got.row, prev_status |-> got.status]
    /\ ops' = ops + 1
    /\ UNCHANGED <<fetched, mainVars, mediaVars>>

SheetNext == GetReadyTasks \/ UpdateTaskStatus

SheetSpec == SheetInit /\ [][SheetNext]_vars


\* ================================== the orchestrator on the local media store
\* PublishService working with LocalMediaStore as its media store, as in the
\* acceptance tests: the ready tasks are fetched, then publish_task is called
\* for them in turn.  What mark_in_progress does is decided by the disk; the
\* metadata repository and the uploader answer as the environment chooses.
RenameOutcomes == {"ok", "PermissionError", "OSError"}

\* How the files of one media name lie on disk before the run: the source
\* alone, the source and a file of the same name in the in-progress
\* directory, or no file at all.
Layouts == {"source", "conflict", "missing"}

FilesOf(layout) ==
    [p \in AllPaths |->
        IF ParentOf(p) = WorkDir /\ layout[NameOf(p)] # "missing"
        THEN "data of " \o NameOf(p)
        ELSE IF ParentOf(p) = StageDir(MediaStage_IN_PROGRESS)
                /\ layout[NameOf(p)] = "conflict"
        THEN "other data"
        ELSE None]

InitFiles == {FilesOf(layout) : layout \in [MediaNames -> Layouts]}

\* The outcome of mark_in_progress as publish_task sees it.
StoreOutcomeOf(m, ref) ==
    IF m.kind = "error" THEN "AdapterError"
    ELSE IF m.ref = ref THEN "same"
    ELSE "moved"

MediaInit ==
    /\ sheet \in InitTables
    /\ \E dry \in BOOLEAN : cfg = [DefaultCfg EXCEPT !.dry_run = dry]
    /\ pc = "idle"
    /\ tasks = <<>>
    /\ idx = 1
    /\ stats = ZeroStats
    /\ runs = 0
    /\ last = NoCall
    /\ proc = Running
    /\ write_failed = FALSE
    /\ files \in InitFiles
    /\ stage_dirs \in {{}, MediaStages}
    /\ store_result = NoStoreCall
    /\ CellsIdle

\* tasks = repo.get_ready_tasks()
MediaFetch ==
    /\ pc = "idle"
    /\ tasks' = get_ready_tasks(sheet)
    /\ sheet' = get_ready_tasks_sheet(sheet, [r \in Rows |-> "ok"])
    /\ idx' = 1
    /\ runs' = runs + 1
    /\ pc' = "loop"
    /\ UNCHANGED <<cfg, stats, last, proc, write_failed, cellVars, mediaVars>>

\* service.publish_task(tasks[idx]) with the local media store behind
\* mark_in_progress.
MediaPublish ==
    /\ pc = "loop"
    /\ idx <= Len(tasks)
    /\ \E rename \in RenameOutcomes :
          \E m \in {mark_in_progress(files, stage_dirs, tasks[idx].media_reference, rename)} :
          \E env \in Envs :
          LET called == ~AlreadyUploaded(tasks[idx]) /\ env.repo_inprog = "ok"
              renamed == /\ called
                         /\ m.kind = "error" => m.code \in {"PERMISSION_DENIED", "MOVE_FAILED"}
                         /\ m.kind = "ok" => m.ref # tasks[idx].media_reference
          IN
          /\ Consumed(env, cfg, tasks[idx])
          /\ called => env.store = StoreOutcomeOf(m, tasks[idx].media_reference)
          /\ ~renamed => rename = "ok"
          /\ \E r \in {publish_task(sheet, cfg, tasks[idx], env)} :
                /\ sheet' = r.ctx.sheet
                /\ stats' = Count(stats, r.outcome)
                /\ last' = [row |-> tasks[idx].row, outcome |-> r.outcome,
                            calls |-> r.ctx.calls, env |-> env,
                            task_in |-> tasks[idx], task |-> r.ctx.task,
                            sheet_in |-> sheet[tasks[idx].row], stats_in |-> stats]
          /\ files' = IF called THEN m.files ELSE files
          /\ store_result' =
                IF called
                THEN [kind |-> m.kind, code |-> m.code, ref |-> m.ref,
                      ref_in |-> tasks[idx].media_reference, files_in |-> files]
                ELSE NoStoreCall
          /\ write_failed' = (write_failed \/ WriteRaised(env))
    /\ idx' = idx + 1
    /\ UNCHANGED <<cfg, pc, tasks, runs, proc, stage_dirs, cellVars>>

MediaNext == MediaFetch \/ MediaPublish

MediaSpec == MediaInit /\ [][MediaNext]_vars


\* ================================================================== claims
\* What the latest publish_task call was given and what it did.
Called == last.row # 0
Calls(op) == NumCalls(last.calls, op)
LastCall == last.calls[Len(last.calls)]
\* The call got past the idempotency gate and both IN_PROGRESS signals, with
\* an uploader configured and dry run off: _upload_media ran.
ReachedUpload ==
    /\ Called
    /\ ~Truthy(last.task_in.platform_media_id)
    /\ last.env.repo_inprog = "ok"
    /\ last.env.store \in {"same", "moved"}
    /\ ~cfg.dry_run /\ cfg.has_uploader
\* The terminal status the call wrote, as the table shows it when the write
\* went through.
Persisted(status) == last.env.repo_terminal = "ok" => sheet[last.row].status = status

\* C1: a task that already has a platform media id is skipped: publish_task
\* returns "skipped", calls neither the media store, the uploader nor the
\* metadata repository, leaves its row as it was, and the batch counts it as
\* processed and skipped.
C1_IdempotentSkip ==
    (Called /\ Truthy(last.task_in.platform_media_id)) =>
        /\ last.outcome = "skipped"
        /\ last.calls = <<>>
        /\ sheet[last.row] = last.sheet_in
        /\ last.task = last.task_in
        /\ stats = [last.stats_in EXCEPT !.processed = @ + 1, !.skipped = @ + 1]

C1_Witness ==
    /\ Called /\ Truthy(last.task_in.platform_media_id)
    /\ last.outcome = "skipped" /\ stats.skipped = 1 /\ stats.processed >= 1

\* C2: with an uploader that always raises a retryable error and
\* max_retries = N, one publish_task calls publish_media N times, calls
\* increment_attempts N times, returns "failed" and writes FAILED.
C2_RetryBound ==
    (ReachedUpload /\ last.env.up_k = 0 /\ last.env.up_final = "RetryableError") =>
        /\ Calls("publish_media") = cfg.max_retries
        /\ Calls("increment_attempts") = cfg.max_retries
        /\ last.outcome = "failed"
        /\ LastCall.op = "update_task_status" /\ LastCall.status = FAILED

\* C3: with max_retries = N and an uploader that raises a retryable error on
\* its first k calls (1 <= k < N) and then succeeds, one publish_task calls
\* publish_media and increment_attempts k + 1 times each and returns
\* "success".
C3_RetryThenSuccess ==
    (ReachedUpload /\ last.env.up_final = "success"
       /\ 1 <= last.env.up_k /\ last.env.up_k < cfg.max_retries) =>
        /\ Calls("publish_media") = last.env.up_k + 1
        /\ Calls("increment_attempts") = last.env.up_k + 1
        /\ last.outcome = "success"

\* C4: when publish_media raises a permanent error, publish_task calls
\* publish_media once and increment_attempts once, whatever max_retries is,
\* and returns "failed".
C4_NoRetryOnPermanent ==
    (ReachedUpload /\ UploaderOutcome(last.env, 1) = "PermanentError") =>
        /\ Calls("publish_media") = 1
        /\ Calls("increment_attempts") = 1
        /\ last.outcome = "failed"

C4_Witness ==
    /\ ReachedUpload /\ UploaderOutcome(last.env, 1) = "PermanentError"
    /\ cfg.max_retries = MaxRetriesBound
    /\ Calls("publish_media") = 1

\* C5: when publish_media returns an unsuccessful result, or raises an
\* exception that is neither a retryable nor a permanent uploader error,
\* publish_task calls the uploader no further, does not raise, returns
\* "failed" and writes FAILED.
C5_UnsuccessfulOrUnexpected ==
    (ReachedUpload /\ UploaderOutcome(last.env, 1) \in
        {"unsuccessful", "unsuccessful_nomsg", "MediaUploaderError", "Exception"}) =>
        /\ Calls("publish_media") = 1
        /\ last.outcome = "failed"
        /\ LastCall.op = "update_task_status" /\ LastCall.status = FAILED
        /\ Persisted(FAILED)

C5_Witness ==
    /\ ReachedUpload /\ UploaderOutcome(last.env, 1) = "Exception"
    /\ cfg.max_retries > 1
    /\ last.outcome = "failed" /\ sheet[last.row].status = FAILED

\* C6: in every publish_task call of every invocation, a row whose platform
\* media id was already persisted when the call started gets no publish_media
\* call.
C6_NeverReuploaded ==
    (Called /\ last.sheet_in.youtube_video_id # "") => Calls("publish_media") = 0

\* A second invocation meets a row that carries a platform id, after the
\* first invocation persisted the id of another row.
C6_Witness ==
    /\ runs >= 2 /\ Called /\ last.sheet_in.youtube_video_id # ""
    /\ \E r \in Rows : sheet[r].youtube_video_id = MediaIdOf(r)

\* C7: when mark_in_progress fails with an adapter error, in normal or in
\* dry-run mode, publish_task returns "failed", writes FAILED with the
\* adapter's error, and calls neither publish_media nor increment_attempts.
StageFailed ==
    /\ Called
    /\ ~Truthy(last.task_in.platform_media_id)
    /\ last.env.repo_inprog = "ok"
    /\ last.env.store = "AdapterError"

StageFailedMsg == "Failed to mark media as IN_PROGRESS: " \o AdapterErrStr

C7_StageFailure ==
    StageFailed =>
        /\ last.outcome = "failed"
        /\ LastCall = CallUpdate(last.row, FAILED, None, StageFailedMsg)
        /\ last.env.repo_terminal = "ok" =>
              /\ sheet[last.row].status = FAILED
              /\ sheet[last.row].error_message = StageFailedMsg
        /\ Calls("publish_media") = 0
        /\ Calls("increment_attempts") = 0

C7_Witness ==
    /\ StageFailed /\ cfg.dry_run
    /\ last.outcome = "failed" /\ sheet[last.row].status = FAILED

\* C8: when the media stage signal fails, update_task_status is called
\* exactly once for the task, with FAILED and the error message, and no
\* IN_PROGRESS status is written to the metadata store.
C8_SingleFailedWrite ==
    StageFailed =>
        /\ Calls("update_task_status") = 1
        /\ LastCall = CallUpdate(last.row, FAILED, None, StageFailedMsg)
        /\ \A i \in DOMAIN last.calls : last.calls[i].status # IN_PROGRESS

\* C9: in dry-run mode, or with no uploader configured, a task whose stage
\* signal succeeded is written DRY_RUN_OK and reported "success", with no
\* publish_media, upload_thumbnail or increment_attempts call.
ValidatedOnly ==
    /\ Called
    /\ ~Truthy(last.task_in.platform_media_id)
    /\ last.env.repo_inprog = "ok"
    /\ last.env.store \in {"same", "moved"}
    /\ cfg.dry_run \/ ~cfg.has_uploader

C9_DryRun ==
    ValidatedOnly =>
        /\ last.outcome = "success"
        /\ stats.succeeded = last.stats_in.succeeded + 1
        /\ LastCall = CallUpdate(last.row, DRY_RUN_OK, None, None)
        /\ Persisted(DRY_RUN_OK)
        /\ Calls("publish_media") = 0
        /\ Calls("upload_thumbnail") = 0
        /\ Calls("increment_attempts") = 0

C9_Witness ==
    /\ ValidatedOnly /\ ~cfg.dry_run /\ ~cfg.has_uploader
    /\ Truthy(last.task_in.thumbnail_reference)
    /\ sheet[last.row].status = DRY_RUN_OK

\* C10: after a successful upload of a task with a thumbnail reference,
\* upload_thumbnail is attempted, and whether it returns false or raises,
\* publish_task returns "success" and writes SCHEDULED with the platform
\* media id.
UploadedWithThumbnail ==
    /\ ReachedUpload
    /\ UploaderOutcome(last.env, 1) = "success"
    /\ Truthy(last.task_in.thumbnail_reference)

C10_ThumbnailBestEffort ==
    UploadedWithThumbnail =>
        /\ Calls("upload_thumbnail") = 1
        /\ \E i \in DOMAIN last.calls :
              last.calls[i] = CallThumbnail(last.row, MediaIdOf(last.row),
                                            last.task_in.thumbnail_reference)
        /\ last.outcome = "success"
        /\ LastCall = CallUpdate(last.row, SCHEDULED, MediaIdOf(last.row), None)
        /\ last.env.repo_terminal = "ok" =>
              /\ sheet[last.row].status = SCHEDULED
              /\ sheet[last.row].youtube_video_id = MediaIdOf(last.row)

C10_Witness ==
    /\ UploadedWithThumbnail /\ last.env.thumb = "raise"
    /\ last.outcome = "success" /\ sheet[last.row].status = SCHEDULED

\* A successful upload: _upload_media ran and its publish_media call returned
\* a successful result.
UploadSucceeded == ReachedUpload /\ UploaderOutcome(last.env, 1) = "success"

\* C11: after a successful upload whose SCHEDULED write went through, the
\* row has status SCHEDULED, the platform media id the uploader returned and
\* an empty error_message, whatever error_message it held before.
C11_ScheduledClearsError ==
    (UploadSucceeded /\ last.env.repo_terminal = "ok") =>
        /\ sheet[last.row].status = SCHEDULED
        /\ sheet[last.row].youtube_video_id = MediaIdOf(last.row)
        /\ sheet[last.row].error_message = ""

\* C12: the Task object handed to publish_task carries the terminal outcome
\* when the call returns: SCHEDULED, the result's media id and no error
\* after a successful upload; FAILED and an error message after a failure.
C12_TaskMutatedInPlace ==
    /\ UploadSucceeded =>
          /\ last.task.status = SCHEDULED
          /\ last.task.platform_media_id = MediaIdOf(last.row)
          /\ last.task.error_message = None
    /\ (Called /\ last.outcome = "failed") =>
          /\ last.task.status = FAILED
          /\ Truthy(last.task.error_message)

\* C13: every row whose status is FAILED has a non-empty error_message and
\* an empty platform media id, whether the orchestrator's failure write-back
\* or the marking of a row that failed validation wrote the status.
C13_FailedRowShape ==
    \A r \in Rows :
        sheet[r].status = FAILED =>
            /\ sheet[r].error_message # ""
            /\ sheet[r].youtube_video_id = ""

\* The upload attempt ended in failure through the uploader: publish_media
\* raised a MediaUploaderError (retryable, permanent or plain) or returned an
\* unsuccessful result.
UploaderFailures ==
    {"unsuccessful", "unsuccessful_nomsg", "RetryableError", "PermanentError",
     "MediaUploaderError"}

UploadFailedByUploader ==
    ReachedUpload /\ UploaderOutcome(last.env, 1) \in UploaderFailures

\* C14 as stated: the message written with FAILED is exactly the uploader
\* error's message, or the error_message of the unsuccessful result.
C14_ExactUploaderMessage ==
    UploadFailedByUploader =>
        /\ LastCall = CallUpdate(last.row, FAILED, None,
                                 UploadErrStr(UploaderOutcome(last.env, 1)))
        /\ sheet[last.row].youtube_video_id = ""

\* C14: when the upload attempt fails through the uploader, the message
\* written with FAILED is the uploader error's message (the error_message of
\* the unsuccessful result) when there is one and "Unknown error" when it is
\* missing; the row's platform media id stays empty.
C14_UploaderMessageOrUnknown ==
    UploadFailedByUploader =>
        LET msg == OrElse(UploadErrStr(UploaderOutcome(last.env, 1)), "Unknown error") IN
        /\ LastCall = CallUpdate(last.row, FAILED, None, msg)
        /\ last.env.repo_terminal = "ok" =>
              /\ sheet[last.row].status = FAILED
              /\ sheet[last.row].error_message = msg
        /\ sheet[last.row].youtube_video_id = ""

C14_Witness ==
    /\ UploadFailedByUploader /\ UploaderOutcome(last.env, 1) = "PermanentError"
    /\ sheet[last.row].status = FAILED
    /\ sheet[last.row].error_message = "Invalid request"

\* The call ended with a terminal metadata write that raised.
TerminalWriteRaised ==
    /\ Called /\ last.calls # <<>>
    /\ LastCall.op = "update_task_status"
    /\ LastCall.status \in {SCHEDULED, FAILED, DRY_RUN_OK}
    /\ last.env.repo_terminal = "error"

\* The outcome computed from the upload: "success" for a successful upload or
\* a validation-only run, "failed" otherwise.
ComputedOutcome == IF UploadSucceeded \/ ValidatedOnly THEN "success" ELSE "failed"

\* C15: when the terminal metadata write (SCHEDULED, FAILED or DRY_RUN_OK)
\* raises, publish_task does not raise, returns the outcome computed from the
\* upload, the batch counts that outcome, and the row keeps what it held
\* before the write.
C15_WriteFailureNotEscalated ==
    TerminalWriteRaised =>
        /\ last.outcome = ComputedOutcome
        /\ stats.processed = last.stats_in.processed + 1
        /\ stats.succeeded = last.stats_in.succeeded
                             + (IF ComputedOutcome = "success" THEN 1 ELSE 0)
        /\ stats.failed = last.stats_in.failed
                          + (IF ComputedOutcome = "failed" THEN 1 ELSE 0)
        /\ stats.skipped = last.stats_in.skipped
        /\ sheet[last.row].status \notin {SCHEDULED, FAILED, DRY_RUN_OK}

C15_Witness ==
    /\ TerminalWriteRaised /\ UploadSucceeded
    /\ last.outcome = "success" /\ stats.succeeded = 1
    /\ sheet[last.row].status = UPLOADING

\* C16, the counters: inside the loop as many tasks are counted as the loop
\* has passed, the latest publish_task call was for the task just passed, an
\* exception leaving it was counted processed and failed, and when the batch
\* returns processed = succeeded + failed + skipped = number of fetched tasks.
C16_Counts ==
    /\ stats.processed = stats.succeeded + stats.failed + stats.skipped
    /\ pc = "loop" => stats.processed = idx - 1
    /\ Called =>
          /\ last.task_in = tasks[idx - 1]
          /\ stats.processed = last.stats_in.processed + 1
          /\ last.outcome = "raised" =>
                /\ stats.failed = last.stats_in.failed + 1
                /\ stats.succeeded = last.stats_in.succeeded
                /\ stats.skipped = last.stats_in.skipped
    /\ proc.how = "returned" => stats.processed = Len(tasks)

\* C16, the steps: the ready set is fetched when the batch starts and not
\* again, every loop step calls publish_task for the next task of the list,
\* and the batch returns only when the list is exhausted.
C16_Step ==
    /\ (pc = "idle" /\ pc' = "loop") => (tasks' = get_ready_tasks(sheet) /\ idx' = 1)
    /\ (pc = "loop" /\ pc' = "loop") =>
          /\ tasks' = tasks
          /\ idx <= Len(tasks) /\ idx' = idx + 1
          /\ last'.task_in = tasks[idx]
    /\ (pc = "loop" /\ proc'.how = "returned") => (idx > Len(tasks) /\ tasks' = tasks)

\* C16: publish_all_ready_tasks fetches the ready set once and calls
\* publish_task exactly once per fetched task in list order; an exception
\* leaving publish_task is counted processed and failed and does not stop the
\* batch; on return processed = succeeded + failed + skipped = number fetched.
C16_BatchLoop == []C16_Counts /\ [][C16_Step]_vars

\* A batch of two tasks has returned; its last publish_task call raised and
\* the one before it did not succeed either.
C16_Witness ==
    /\ proc.how = "returned" /\ Len(tasks) >= 2
    /\ Called /\ last.outcome = "raised"
    /\ stats.failed >= 2 /\ stats.processed = Len(tasks)

\* C17: the process exits with a non-zero status whenever the batch summary
\* reports failed > 0, with 130 when interrupted, with 1 on a fatal error of
\* the workflow, and with 0 when the workflow completes with failed = 0.
C17_ExitStatus ==
    /\ (proc.how = "returned" /\ stats.failed > 0) => proc.code # 0
    /\ proc.how = "interrupted" => proc.code = 130
    /\ proc.how = "fatal" => proc.code = 1
    /\ (proc.how = "returned" /\ stats.failed = 0) => proc.code = 0

\* A run that processed two tasks, one of which failed, has exited.
C17_Witness ==
    /\ proc.how = "returned" /\ proc.code = 1
    /\ stats.processed = 2 /\ stats.failed = 1 /\ stats.succeeded = 1

\* C18: after update_task_status has written SCHEDULED and a platform media
\* id for a task of the ready set, the next get_ready_tasks does not return
\* that task, whatever the column order of the table.
C18_ScheduledNotReady ==
    (/\ got.op = "get_ready_tasks" /\ got.kind = "tasks"
     /\ got.prev_op = "update_task_status" /\ got.prev_kind = "ok"
     /\ got.prev_status = SCHEDULED) =>
        \A i \in DOMAIN fetched : fetched[i].row_index # got.prev_row

\* Under the shuffled header, one of two ready tasks was written SCHEDULED
\* and the next read returned the other one alone.
C18_Witness ==
    /\ grid[1] = ShuffledHeader
    /\ got.op = "get_ready_tasks" /\ got.kind = "tasks"
    /\ got.prev_op = "update_task_status" /\ got.prev_status = SCHEDULED
    /\ Len(fetched) = 1 /\ fetched[1].row_index # got.prev_row
    /\ get_cell(grid[got.prev_row], "youtube_video_id", "", header_map) = "X"

\* C20: on a table whose header is a permutation of the required column
\* names and whose one data row is a valid ready row, get_ready_tasks returns
\* one Task with the fields bound to the cells under their names, and the
\* Task is the same as under every other order of the columns.
C20_HeaderOrderIndependent ==
    (/\ ops = 1 /\ got.op = "get_ready_tasks"
     /\ grid[1] \in RequiredHeaders /\ grid = GridOf(grid[1], 1, 0)) =>
        /\ Len(fetched) = 1
        /\ fetched[1].task_id = CellOf(2, "task_id", 0)
        /\ fetched[1].title = CellOf(2, "title", 0)
        /\ fetched[1].media_reference = CellOf(2, "video_file_path", 0)
        /\ fetched[1].description = CellOf(2, "description", 0)
        /\ fetched[1].publish_at = CellOf(2, "publish_at", 0)
        /\ fetched[1].status = READY
        /\ \A h \in RequiredHeaders :
              get_ready_tasks_cells(GridOf(h, 1, 0), NoHeaderMap, TRUE).tasks = fetched

\* The rows a get_ready_tasks call would return now.
ReadyRowsNow == {get_ready_tasks(sheet)[j].row : j \in DOMAIN get_ready_tasks(sheet)}

\* A run of publish_all_ready_tasks has returned and none of its metadata
\* writes raised.
ReturnedAllWritten == proc.how = "returned" /\ ~write_failed

\* C19 as stated: after publish_all_ready_tasks has returned, all metadata
\* writes having succeeded, get_ready_tasks returns none of the tasks of the
\* fetched ready set.
C19_NoneReadyAgain ==
    ReturnedAllWritten =>
        \A i \in DOMAIN tasks : tasks[i].row \notin ReadyRowsNow

\* C19: after publish_all_ready_tasks has returned, all metadata writes
\* having succeeded, get_ready_tasks returns none of the fetched tasks that
\* had no platform media id; a fetched task that already carried one was
\* skipped, is still READY and is returned again.
C19_ProcessedNotReadyAgain ==
    ReturnedAllWritten =>
        \A i \in DOMAIN tasks :
            tasks[i].row \in ReadyRowsNow <=> Truthy(tasks[i].platform_media_id)

\* A run over two tasks, one that failed and one that succeeded, has
\* returned and nothing is ready any more.
C19_Witness ==
    /\ ReturnedAllWritten /\ Len(tasks) = 2
    /\ stats.failed = 1 /\ stats.succeeded = 1
    /\ ReadyRowsNow = {}

\* The normalized names of a header row.
HeaderNames(header) == {Lower(Strip(header[i])) : i \in DOMAIN header} \ {""}
\* The header of the table lacks a required name / holds an expected name.
LacksRequired == grid # <<>> /\ REQUIRED_COLUMNS \ HeaderNames(grid[1]) # {}
Recognised == grid # <<>> /\ HeaderNames(grid[1]) \cap EXPECTED_HEADERS # {}
\* The latest repository call was a get_ready_tasks.
JustRead == got.op = "get_ready_tasks"

\* C21 as stated: for every header row that lacks a required column name,
\* get_ready_tasks raises a schema error that lists the missing required
\* names and the names found, and writes nothing.
C21_AnyHeaderLackingRequired ==
    (JustRead /\ LacksRequired) =>
        /\ got.kind = "error"
        /\ got.missing = REQUIRED_COLUMNS \ HeaderNames(grid[1])
        /\ got.found = HeaderNames(grid[1]) \cap EXPECTED_HEADERS
        /\ got.writes = 0

C21_Raised ==
    (JustRead /\ LacksRequired /\ Recognised) =>
        /\ got.kind = "error"
        /\ got.missing = REQUIRED_COLUMNS \ HeaderNames(grid[1])
        /\ got.found = HeaderNames(grid[1]) \cap EXPECTED_HEADERS
        /\ got.writes = 0 /\ got.rejected = {}

C21_Step ==
    (ops' = ops + 1 /\ got'.op = "get_ready_tasks" /\ got'.kind = "error") =>
        /\ grid' = grid
        /\ fetched' = fetched
        /\ header_map' = header_map

\* C21: for every header row that holds at least one expected column name
\* and lacks a required one, get_ready_tasks raises a schema error that lists
\* exactly the missing required names and the expected names found, returns
\* no tasks and leaves the table as it was.
C21_SchemaError == []C21_Raised /\ [][C21_Step]_vars

\* The read of a table whose header holds two expected names and an unknown
\* one has raised.
C21_Witness ==
    /\ JustRead /\ got.kind = "error"
    /\ grid[1] = <<"notes", "STATUS", "title">>
    /\ got.found = {"status", "title"}
    /\ got.missing = REQUIRED_COLUMNS \ {"status", "title"}
    /\ fetched = <<>>

\* The cell at a 0-based position of a row, stripped, or the default when it
\* is absent or empty.
At(row, index, default) ==
    IF index + 1 > Len(row) THEN default
    ELSE IF Strip(row[index + 1]) = "" THEN default
    ELSE Strip(row[index + 1])

\* The Task one gets from a row by the fixed positions task_id=0, status=1,
\* title=2, video_file_path=3, description=4, tags=5, category_id=6,
\* thumbnail_path=7, publish_at=8, privacy_status=9, youtube_video_id=10,
\* error_message=11, attempts=12, last_attempt_at=13, created_at=14,
\* updated_at=15.
BoundByPosition(task, row) ==
    /\ task.task_id = At(row, 0, "")
    /\ task.status = At(row, 1, "")
    /\ task.title = At(row, 2, "")
    /\ task.media_reference = At(row, 3, "")
    /\ task.description = At(row, 4, "")
    /\ task.tags = split_tags(At(row, 5, ""))
    /\ task.category_id = At(row, 6, "22")
    /\ task.thumbnail_reference = At(row, 7, None)
    /\ task.publish_at = At(row, 8, None)
    /\ task.privacy_status = At(row, 9, "private")
    /\ task.platform_media_id = At(row, 10, None)
    /\ task.error_message = At(row, 11, None)
    /\ task.attempts = parse_int(At(row, 12, "0")).value
    /\ task.last_attempt_at = At(row, 13, None)
    /\ task.created_at = At(row, 14, None)
    /\ task.updated_at = At(row, 15, None)

\* C22: when the header row is empty or none of its normalized names is an
\* expected column name, get_ready_tasks raises no schema error, resolves to
\* the positional column map and binds every field of every returned Task to
\* the cell at the field's fixed position.
C22_PositionalFallback ==
    (JustRead /\ grid # <<>> /\ ~Recognised) =>
        /\ got.kind = "tasks"
        /\ header_map.kind = "none"
        /\ \A i \in DOMAIN fetched :
              BoundByPosition(fetched[i], grid[fetched[i].row_index])

\* Under an empty header row a ready row was read by position.
C22_Witness ==
    /\ JustRead /\ got.kind = "tasks" /\ grid[1] = EmptyHeader
    /\ Len(fetched) >= 1
    /\ fetched[1].title = "Title 2" /\ fetched[1].category_id = "27"
    /\ fetched[1].tags = <<"tag1", "tag2">> /\ fetched[1].attempts = 2

\* The status and the title of sheet row k as the resolved columns give them.
StatusIn(g, k, hm) == get_cell(g[k], "status", "", hm)
TitleIn(g, k, hm) == get_cell(g[k], "title", "", hm)
FieldIn(g, k, name, hm) == get_cell(g[k], name, "", hm)

\* What is wrong with the cells of sheet row k, None when nothing is: a
\* required cell left empty, a text past its limit, a date, a privacy status
\* or a count that is not one.
Violation(g, k, hm) ==
    CASE FieldIn(g, k, "task_id", hm) = "" -> "task_id is required"
      [] TitleIn(g, k, hm) = "" -> "title is required"
      [] FieldIn(g, k, "video_file_path", hm) = "" ->
            "video_file_path (media_reference) is required"
      [] Len(TitleIn(g, k, hm)) > MAX_TITLE -> "title exceeds 100 characters: 101"
      [] Len(FieldIn(g, k, "description", hm)) > MAX_DESCRIPTION ->
            "description exceeds 5000 characters: 5001"
      [] Len(FieldIn(g, k, "tags", hm)) > MAX_TAGS -> "tags exceed 500 characters: 501"
      [] FieldIn(g, k, "publish_at", hm) \notin IsoDatetimes \cup {""} ->
            "Invalid datetime format: tomorrow. Use ISO 8601 format."
      [] FieldIn(g, k, "privacy_status", hm) \notin PRIVACY_STATUSES \cup {""} ->
            "Invalid privacy_status: secret"
      [] FieldIn(g, k, "attempts", hm) = "many" -> "Invalid integer: many"
      [] FieldIn(g, k, "attempts", hm) = "-1" -> "attempts must be non-negative: -1"
      [] OTHER -> None

\* C23, one read that did not raise: the rows returned are the READY rows
\* with nothing wrong in their cells, in physical order; a write is attempted
\* for every other READY row, which leaves it FAILED with the validation
\* message or, when the write fails, as it was; no other row changes.
C23_Step ==
    (ops' = ops + 1 /\ got'.op = "get_ready_tasks" /\ got'.kind = "tasks") =>
        LET hm == header_map'
            ready == {k \in 2..Len(grid) : StatusIn(grid, k, hm) = READY}
            bad == {k \in ready : Violation(grid, k, hm) # None}
        IN  /\ got'.rejected = bad
            /\ Len(fetched') = Cardinality(ready \ bad)
            /\ {fetched'[i].row_index : i \in DOMAIN fetched'} = ready \ bad
            /\ \A i, j \in DOMAIN fetched' :
                  i < j => fetched'[i].row_index < fetched'[j].row_index
            /\ got'.writes = Cardinality(bad)
            /\ \A k \in bad :
                  \/ grid'[k] = grid[k]
                  \/ /\ StatusIn(grid', k, hm) = FAILED
                     /\ get_cell(grid'[k], "error_message", "", hm) = Violation(grid, k, hm)
            /\ \A k \in DOMAIN grid \ bad : grid'[k] = grid[k]

\* C23, the aborted reads: a read raises only for a header that lacks a
\* required column.
C23_OnlySchemaAborts == (JustRead /\ got.kind = "error") => LacksRequired

\* C23: under a usable header, a READY row that fails validation is left out
\* of the returned list and marked FAILED with the validation message (best
\* effort), every other valid READY row is still returned, and only a
\* missing required column aborts the read.
C23_RowIsolation == []C23_OnlySchemaAborts /\ [][C23_Step]_vars

\* The first data row had no title: it was marked FAILED and the row after
\* it was returned.
C23_Witness ==
    /\ JustRead /\ got.kind = "tasks" /\ got.rejected = {2}
    /\ StatusIn(grid, 2, header_map) = FAILED
    /\ get_cell(grid[2], "error_message", "", header_map) = "title is required"
    /\ Len(fetched) = 1 /\ fetched[1].row_index = 3

\* C24: once get_ready_tasks has resolved the columns, by the header or by
\* the positional fallback, every later write-back (update_task_status, the
\* marking of a row that failed validation) uses that resolution and reads
\* the header no further.
C24_WriteBackUsesCache ==
    (got.op = "update_task_status" \/ (JustRead /\ got.kind = "tasks")) =>
        got.header_reads = 0

\* The stage signal relocated the media and the upload attempt then failed.
RelocatedThenFailed ==
    /\ ReachedUpload
    /\ last.env.store = "moved"
    /\ UploaderOutcome(last.env, 1) # "success"

\* C25: when mark_in_progress returned a new reference and the upload then
\* failed, the row holds the relocated in-progress reference as its media
\* reference, status FAILED, no platform media id and an error message.
C25_FailedKeepsRelocatedRef ==
    (RelocatedThenFailed /\ last.env.repo_terminal = "ok") =>
        /\ sheet[last.row].video_file_path = InProgressRef(last.sheet_in.video_file_path)
        /\ sheet[last.row].status = FAILED
        /\ sheet[last.row].youtube_video_id = ""
        /\ sheet[last.row].error_message # ""

\* The latest publish_task call uploaded its task and returned "success".
UploadedAndSucceeded ==
    Called /\ last.outcome = "success" /\ Calls("publish_media") = 1

\* Where the media of the latest call lies at each stage.
InProgressPath == PathIn(StageDir(MediaStage_IN_PROGRESS), NameOf(last.task_in.media_reference))
UploadedPath == PathIn(StageDir(MediaStage_UPLOADED), NameOf(last.task_in.media_reference))

\* C26: after publish_task returned "success" for an uploaded task, with the
\* stage directories configured, the media file is in the uploaded
\* directory, the Task object and the row hold the uploaded location as the
\* media reference, and no file of the task is left in the in-progress
\* directory.
C26_UploadedStage ==
    (UploadedAndSucceeded /\ stage_dirs = MediaStages) =>
        /\ files[UploadedPath] # None
        /\ last.task.media_reference = UploadedPath
        /\ last.env.repo_terminal = "ok" =>
              sheet[last.row].video_file_path = UploadedPath
        /\ files[InProgressPath] = None

\* mark_in_progress was called for a media file that exists, with the
\* in-progress directory configured and a file of the same name in it.
DestinationTaken ==
    /\ Called /\ store_result.kind # "none"
    /\ MediaStage_IN_PROGRESS \in stage_dirs
    /\ store_result.files_in[store_result.ref_in] # None
    /\ ParentOf(store_result.ref_in) # StageDir(MediaStage_IN_PROGRESS)
    /\ store_result.files_in[InProgressPath] # None

\* C27: when a file of the same name already exists at the in-progress
\* destination, mark_in_progress fails with FILE_EXISTS, every file is where
\* and what it was, the media reference of the Task object and of the row is
\* the original one, and the task ends FAILED with one stage call and no
\* increment_attempts or publish_media call.
C27_DestinationExists ==
    DestinationTaken =>
        /\ store_result.kind = "error" /\ store_result.code = "FILE_EXISTS"
        /\ files = store_result.files_in
        /\ last.task.media_reference = last.task_in.media_reference
        /\ sheet[last.row].video_file_path = last.sheet_in.video_file_path
        /\ last.outcome = "failed"
        /\ LastCall.op = "update_task_status" /\ LastCall.status = FAILED
        /\ Persisted(FAILED)
        /\ Calls("mark_in_progress") = 1
        /\ Calls("increment_attempts") = 0
        /\ Calls("publish_media") = 0
        /\ Calls("upload_thumbnail") = 0

\* The stage call failed on the conflict while an uploader was configured
\* and max_retries allowed: the row is FAILED and both files are in place.
C27_Witness ==
    /\ DestinationTaken /\ ~cfg.dry_run
    /\ store_result.code = "FILE_EXISTS"
    /\ sheet[last.row].status = FAILED
    /\ files[last.task_in.media_reference] = "data of " \o NameOf(last.task_in.media_reference)
    /\ files[InProgressPath] = "other data"

\* What the store handed back is what publish_task went on with.
MediaRefConsistent ==
    (Called /\ store_result.kind = "ok") => last.task.media_reference = store_result.ref

\* C28: when the IN_PROGRESS write to the metadata repository raises, with a
\* MetadataRepositoryError or any other exception, publish_task returns
\* "failed" without raising: the only other call it makes is the FAILED
\* write; mark_in_progress, increment_attempts and publish_media are not
\* called.
InProgressWriteFailed ==
    /\ Called
    /\ ~Truthy(last.task_in.platform_media_id)
    /\ last.env.repo_inprog # "ok"

C28_InProgressWriteFailure ==
    InProgressWriteFailed =>
        /\ last.outcome = "failed"
        /\ last.outcome # "raised"
        /\ Calls("mark_in_progress") = 0
        /\ Calls("increment_attempts") = 0
        /\ Calls("publish_media") = 0
        /\ Len(last.calls) = 2
        /\ last.calls[1].op = "update_task_status" /\ last.calls[1].status = IN_PROGRESS
        /\ last.calls[2].op = "update_task_status" /\ last.calls[2].status = FAILED
        /\ last.calls[2].row = last.row
        /\ stats.failed = last.stats_in.failed + 1

\* The IN_PROGRESS write raises an exception that is not a
\* MetadataRepositoryError and the FAILED write raises too.
C28_Witness ==
    /\ InProgressWriteFailed
    /\ last.env.repo_inprog = "Exception" /\ last.env.repo_terminal = "error"
    /\ last.outcome = "failed" /\ Len(last.calls) = 2
    /\ sheet[last.row] = last.sheet_in

\* C29: a publish_task call that reaches the uploader makes its external
\* calls in the order IN_PROGRESS write, mark_in_progress,
\* increment_attempts, publish_media, upload_thumbnail (after a successful
\* upload of a task with a thumbnail), terminal status write; publish_media
\* is called only after the IN_PROGRESS write and mark_in_progress of the
\* same call returned, and with the reference mark_in_progress returned.
OpsOf(calls) == [i \in DOMAIN calls |-> calls[i].op]

ThumbnailDue ==
    /\ UploaderOutcome(last.env, 1) = "success"
    /\ Truthy(last.task_in.thumbnail_reference)

ExpectedOps ==
    <<"update_task_status", "mark_in_progress", "increment_attempts", "publish_media">>
    \o (IF ThumbnailDue THEN <<"upload_thumbnail">> ELSE <<>>)
    \o <<"update_task_status">>

\* What the media store handed back for the reference it was given.
ReturnedRef ==
    IF last.env.store = "moved"
    THEN InProgressRef(last.task_in.media_reference)
    ELSE last.task_in.media_reference

C29_CallOrder ==
    /\ ReachedUpload =>
          /\ OpsOf(last.calls) = ExpectedOps
          /\ last.calls[1].status = IN_PROGRESS
          /\ last.calls[2].ref = last.task_in.media_reference
          /\ last.calls[4].ref = ReturnedRef
          /\ LastCall.status \in {SCHEDULED, FAILED}
          /\ \A i \in DOMAIN last.calls : last.calls[i].row = last.row
    /\ (Called /\ Calls("publish_media") > 0) =>
          /\ last.env.repo_inprog = "ok"
          /\ last.env.store \in {"same", "moved"}
          /\ \E i, j, k \in DOMAIN last.calls :
                /\ i < j /\ j < k
                /\ last.calls[i].op = "update_task_status"
                /\ last.calls[i].status = IN_PROGRESS
                /\ last.calls[j].op = "mark_in_progress"
                /\ last.calls[k].op = "publish_media"
                /\ last.calls[k].ref = ReturnedRef

\* The store relocated the media, the upload succeeded and the task has a
\* thumbnail: all six calls are made.
C29_Witness ==
    /\ ReachedUpload /\ ThumbnailDue
    /\ last.env.store = "moved"
    /\ Len(last.calls) = 6
    /\ last.calls[4] = CallPublish(last.row, InProgressRef(last.task_in.media_reference))
    /\ LastCall.status = SCHEDULED

\* C30: every publish_media call comes right after an increment_attempts
\* call for the same task, exactly one since the previous publish_media call
\* (or since the start); when increment_attempts raises, publish_media is
\* still called and the outcome and the terminal write are those the
\* uploader's answer alone decides.
IncrementsBetween(calls, from, to) ==
    Cardinality({i \in DOMAIN calls :
                    from < i /\ i < to /\ calls[i].op = "increment_attempts"})

PreviousPublish(calls, k) ==
    LET earlier == {i \in DOMAIN calls : i < k /\ calls[i].op = "publish_media"}
    IN  IF earlier = {} THEN 0 ELSE CHOOSE i \in earlier : \A j \in earlier : j <= i

OutcomeByUploader ==
    IF UploaderOutcome(last.env, 1) = "success" THEN "success" ELSE "failed"

C30_IncrementBeforePublish ==
    /\ Called =>
          \A k \in DOMAIN last.calls :
              last.calls[k].op = "publish_media" =>
                  /\ k > 1
                  /\ last.calls[k - 1] = CallIncrement(last.calls[k].row)
                  /\ IncrementsBetween(last.calls, PreviousPublish(last.calls, k), k) = 1
    /\ (ReachedUpload /\ last.env.repo_incr # "ok") =>
          /\ Calls("publish_media") = 1
          /\ Calls("increment_attempts") = 1
          /\ last.outcome = OutcomeByUploader
          /\ LastCall.op = "update_task_status"
          /\ LastCall.status = (IF OutcomeByUploader = "success" THEN SCHEDULED ELSE FAILED)
          /\ last.task.attempts = last.task_in.attempts
          /\ sheet[last.row].attempts = last.sheet_in.attempts

\* increment_attempts raised and the upload went through all the same.
C30_Witness ==
    /\ ReachedUpload /\ last.env.repo_incr = "error"
    /\ UploaderOutcome(last.env, 1) = "success"
    /\ Calls("publish_media") = 1
    /\ last.outcome = "success" /\ sheet[last.row].status = SCHEDULED

\* C31: within one publish_task call the statuses handed to
\* update_task_status follow READY -> IN_PROGRESS -> terminal: IN_PROGRESS at
\* most once, at most one of SCHEDULED, FAILED and DRY_RUN_OK, nothing but
\* these, and no status write after a terminal one; the row's status cell
\* ends as it was, as the in-progress label, or as the terminal status.
TerminalStatuses == {SCHEDULED, FAILED, DRY_RUN_OK}

WritesOf(calls, statuses) ==
    {i \in DOMAIN calls : calls[i].op = "update_task_status" /\ calls[i].status \in statuses}

C31_StatusOrder ==
    Called =>
        /\ Cardinality(WritesOf(last.calls, {IN_PROGRESS})) <= 1
        /\ Cardinality(WritesOf(last.calls, TerminalStatuses)) <= 1
        /\ \A i \in DOMAIN last.calls :
              last.calls[i].op = "update_task_status" =>
                  last.calls[i].status \in {IN_PROGRESS} \cup TerminalStatuses
        /\ \A i \in WritesOf(last.calls, TerminalStatuses) :
              \A j \in DOMAIN last.calls :
                  j > i => last.calls[j].op # "update_task_status"
        /\ sheet[last.row].status \in
              {last.sheet_in.status, DisplayStatus(IN_PROGRESS)} \cup TerminalStatuses

\* An upload whose SCHEDULED write raised: IN_PROGRESS, then the one terminal
\* write, and the row is left with the in-progress label.
C31_Witness ==
    /\ ReachedUpload /\ UploaderOutcome(last.env, 1) = "success"
    /\ last.env.repo_terminal = "error"
    /\ WritesOf(last.calls, {IN_PROGRESS}) = {1}
    /\ WritesOf(last.calls, TerminalStatuses) = {Len(last.calls)}
    /\ sheet[last.row].status = DisplayStatus(IN_PROGRESS)

\* C32: after publish_task is over for a task that passed the idempotency
\* gate, with every metadata write of the call returning, the row's status is
\* SCHEDULED, FAILED or DRY_RUN_OK, whatever the media store and the uploader
\* did.
C32_NeverLeftInProgress ==
    (Called /\ ~Truthy(last.task_in.platform_media_id) /\ ~WriteRaised(last.env)) =>
        sheet[last.row].status \in TerminalStatuses

\* C33: what get_ready_tasks returns is, in physical order, one Task for
\* every data row whose status cell holds the ready status and whose cells
\* pass validation, and for no other row; the Task built from the k-th data
\* row (k counted from 0) has row_index k + 2 and carries that row's cells.
DataRows(g) == SubSeq(g, 2, Len(g))

ReadyValid(g, hm) ==
    {k \in 0..(Len(DataRows(g)) - 1) :
        /\ StatusIn(g, k + 2, hm) = READY
        /\ Violation(g, k + 2, hm) = None}

Nth(S, i) == CHOOSE k \in S : Cardinality({j \in S : j < k}) = i - 1

C33_ReadyRowsInOrder ==
    (JustRead /\ got.kind = "tasks") =>
        /\ Len(fetched) = Cardinality(ReadyValid(grid, header_map))
        /\ \A i \in DOMAIN fetched :
              LET k == Nth(ReadyValid(grid, header_map), i) IN
              /\ fetched[i].row_index = k + 2
              /\ fetched[i].task_id = Strip(At(DataRows(grid)[k + 1],
                                               get_column_index("task_id", header_map), ""))
              /\ fetched[i].title = TitleIn(grid, k + 2, header_map)
              /\ fetched[i].status = READY

\* The first data row is not ready (scheduled, or "ready" in small letters):
\* the one task returned is the second data row's, with row_index 3.
C33_Witness ==
    /\ JustRead /\ got.kind = "tasks"
    /\ Len(grid) = 3
    /\ StatusIn(grid, 2, header_map) \in {SCHEDULED, "ready"}
    /\ Len(fetched) = 1
    /\ fetched[1].row_index = 3 /\ fetched[1].task_id = "task_3"

\* C34: get_ready_tasks accepts a header that names task_id, status, title
\* and video_file_path (in any order and spelling) and omits other columns:
\* it raises nothing, returns the READY rows as Tasks, and the fields of the
\* omitted columns take their defaults.
FourNames == {"task_id", "status", "title", "video_file_path"}

NamesTheFour == grid # <<>> /\ FourNames \subseteq HeaderNames(grid[1])

Omitted(name) == name \notin HeaderNames(grid[1])

C34_FourNamesAccepted ==
    (JustRead /\ NamesTheFour) =>
        /\ got.kind = "tasks"
        /\ \A k \in 2..Len(grid) :
              (StatusIn(grid, k, header_map) = READY
                  /\ TitleIn(grid, k, header_map) # "") =>
                  \E i \in DOMAIN fetched : fetched[i].row_index = k
        /\ \A i \in DOMAIN fetched :
              /\ Omitted("description") => fetched[i].description = ""
              /\ Omitted("tags") => fetched[i].tags = <<>>
              /\ Omitted("category_id") => fetched[i].category_id = "22"
              /\ Omitted("thumbnail_path") => fetched[i].thumbnail_reference = None
              /\ Omitted("publish_at") => fetched[i].publish_at = None
              /\ Omitted("privacy_status") => fetched[i].privacy_status = "private"
              /\ Omitted("youtube_video_id") => fetched[i].platform_media_id = None
              /\ Omitted("error_message") => fetched[i].error_message = None
              /\ Omitted("attempts") => fetched[i].attempts = 0

\* C35: every Task get_ready_tasks returns has a task_id, a title and a media
\* reference that are not empty, a title of at most 100 characters, a
\* description of at most 5000, a tags cell of at most 500, attempts >= 0, a
\* privacy status among public, unlisted and private, and status READY; a row
\* that breaks one of these is not among the Tasks returned.
RawCell(g, k, name, hm) == At(g[k], get_column_index(name, hm), "")

WellFormed(task, g, hm) ==
    /\ task.task_id # "" /\ task.title # "" /\ task.media_reference # ""
    /\ Len(task.title) <= MAX_TITLE
    /\ Len(task.description) <= MAX_DESCRIPTION
    /\ Len(RawCell(g, task.row_index, "tags", hm)) <= MAX_TAGS
    /\ task.attempts >= 0
    /\ task.privacy_status \in PRIVACY_STATUSES
    /\ task.status = READY

\* The odd cells that break a rule, by the column they stand in.
Breaking ==
    [task_id |-> {""}, video_file_path |-> {" "},
     title |-> {"", Repeat("t", MAX_TITLE + 1)},
     description |-> {Repeat("d", MAX_DESCRIPTION + 1)},
     tags |-> {Repeat("g", MAX_TAGS + 1)},
     attempts |-> {"-1", "many"},
     privacy_status |-> {"secret"},
     status |-> {SCHEDULED, "ready"}]

\* The field the i-th cell of a row belongs to: the one its header cell
\* names, or the i-th of the positional layout under a header without names.
ColumnName(g, hm, i) ==
    IF hm.kind = "map"
    THEN (IF i \in DOMAIN g[1] THEN Lower(Strip(g[1][i])) ELSE "")
    ELSE (IF i \in DOMAIN COLUMN_NAMES THEN COLUMN_NAMES[i] ELSE "")

Breaks(g, k, hm) ==
    \E i \in DOMAIN g[k] :
        /\ ColumnName(g, hm, i) \in DOMAIN Breaking
        /\ g[k][i] \in Breaking[ColumnName(g, hm, i)]

C35_ReturnedTasksValid ==
    (JustRead /\ got.kind = "tasks") =>
        /\ \A i \in DOMAIN fetched : WellFormed(fetched[i], grid, header_map)
        /\ \A k \in 2..Len(grid) :
              Breaks(grid, k, header_map) =>
                  \A i \in DOMAIN fetched : fetched[i].row_index # k

\* A read left out a row whose description has 5001 characters and returned
\* the other row.
C35_Witness ==
    /\ JustRead /\ got.kind = "tasks"
    /\ \E k \in got.rejected :
          Len(RawCell(grid, k, "description", header_map)) = MAX_DESCRIPTION + 1
    /\ Len(fetched) >= 1
    /\ \A i \in DOMAIN fetched : Len(fetched[i].description) <= MAX_DESCRIPTION

\* C36: an update_task_status that returns changes cells of sheet row
\* task.row_index only: the status cell and the updated-at cell always, the
\* platform-id, error-message and media-reference cells when the argument is
\* given, each in the column the header names for it (the positional column
\* when the header does not name it); every other cell of the row, every
\* other row and the header stay as they were.  One that raises changes
\* nothing.
ColumnFor(g, hm, name) ==
    IF hm.kind = "map" /\ \E i \in DOMAIN g[1] : Lower(Strip(g[1][i])) = name
    THEN Max({i \in DOMAIN g[1] : Lower(Strip(g[1][i])) = name}) - 1
    ELSE COLUMN_MAP[name]

CellAt(row, index) == IF index + 1 <= Len(row) THEN row[index + 1] ELSE ""

Supplied(call) ==
    {"status", "updated_at"}
    \cup (IF call.youtube_video_id # None THEN {"youtube_video_id"} ELSE {})
    \cup (IF call.error_message # None THEN {"error_message"} ELSE {})
    \cup (IF call.video_file_path # None THEN {"video_file_path"} ELSE {})

ValueFor(call, name) ==
    CASE name = "status" -> DisplayStatus(call.status)
      [] name = "updated_at" -> UtcNowZ
      [] name = "youtube_video_id" -> call.youtube_video_id
      [] name = "error_message" -> call.error_message
      [] name = "video_file_path" -> call.video_file_path

C36_Step ==
    (ops' = ops + 1 /\ got'.op = "update_task_status") =>
        IF got'.kind # "ok" THEN grid' = grid
        ELSE
        LET hm == header_map'
            r == got'.row
            written == {ColumnFor(grid, hm, name) : name \in Supplied(got')}
        IN  /\ DOMAIN grid' = DOMAIN grid
            /\ \A k \in DOMAIN grid \ {r} : grid'[k] = grid[k]
            /\ \A c \in 0..(Len(grid[r]) + Len(grid'[r])) :
                  c \notin written => CellAt(grid'[r], c) = CellAt(grid[r], c)
            /\ \A name \in Supplied(got') :
                  CellAt(grid'[r], ColumnFor(grid, hm, name)) = ValueFor(got', name)

NamedColumns(g) ==
    {i \in DOMAIN g[1] : Lower(Strip(g[1][i])) \in EXPECTED_HEADERS}

FieldsWritten(call) ==
    IF call.op = "update_task_status" THEN Supplied(call)
    ELSE {"status", "error_message"}

C37_Step ==
    (ops' = ops + 1 /\ header_map'.kind = "map") =>
        \A k \in 2..Len(grid) :
            \A i \in NamedColumns(grid) :
                CellAt(grid'[k], i - 1) # CellAt(grid[k], i - 1) =>
                    Lower(Strip(grid[1][i])) \in FieldsWritten(got')

C37_NoCrossFieldWrite == [][C37_Step]_vars

\* C38: over every step of every invocation (reading the ready set, marking
\* the rejected rows, publish_task and its write-backs, the end of a process
\* and the start of the next), a row whose youtube_video_id cell is non-empty
\* keeps that value: it is neither replaced nor cleared.
C38_Step ==
    \A r \in Rows :
        sheet[r].youtube_video_id # "" =>
            sheet'[r].youtube_video_id = sheet[r].youtube_video_id

C38_PlatformIdKept == [][C38_Step]_vars

\* A READY row that carries an id went through publish_task in an invocation
\* that uploaded another row and persisted that row's id; the older id is
\* still in place.
C38_Witness ==
    /\ Called /\ last.sheet_in.status = READY
    /\ last.sheet_in.youtube_video_id = "old_vid"
    /\ sheet[last.row].youtube_video_id = "old_vid"
    /\ \E r \in Rows \ {last.row} :
          sheet[r].youtube_video_id = MediaIdOf(r) /\ sheet[r].status = SCHEDULED

\* C39: over any sequence of publish_all_ready_tasks invocations, publish_media
\* is called for a given row in at most one of them.  Step by step: a
\* publish_task call that calls publish_media for a row found the row's
\* status cell READY, wrote IN_PROGRESS to it before the upload, and leaves
\* it other than READY, so that get_ready_tasks does not return the row; and
\* no step of any invocation takes a status cell that is not READY back to
\* READY.  A row is therefore uploaded by at most one publish_task call, and
\* in at most one invocation.
UploadsRow(r) == Called /\ last.row = r /\ Calls("publish_media") > 0

ReturnedRows(sh) == {get_ready_tasks(sh)[i].row : i \in DOMAIN get_ready_tasks(sh)}

C39_Step ==
    /\ \A r \in Rows : sheet[r].status # READY => sheet'[r].status # READY
    /\ \A r \in Rows :
          (idx' = idx + 1 /\ last'.row = r
           /\ NumCalls(last'.calls, "publish_media") > 0) =>
              /\ sheet[r].status = READY
              /\ last'.calls[1] = CallUpdate(r, IN_PROGRESS, None, None)
              /\ last'.env.repo_inprog = "ok"
              /\ sheet'[r].status # READY
              /\ r \notin ReturnedRows(sheet')

C39_UploadedInOneInvocation == [][C39_Step]_vars

\* The same said over whole behaviours: once a publish_task call of
\* invocation n has called publish_media for a row, no publish_task call of a
\* later invocation calls it for that row.
C39_AcrossInvocations ==
    \A r \in Rows : \A n \in 1..MaxRuns :
        []((runs = n /\ UploadsRow(r)) => [](runs > n => ~UploadsRow(r)))

\* The second invocation uploads the one row it was given, while another row
\* carries the id an upload of the first invocation persisted.
C39_Witness ==
    /\ runs = 2 /\ Len(tasks) = 1 /\ UploadsRow(tasks[1].row)
    /\ \E r \in Rows \ {last.row} :
          sheet[r].youtube_video_id = MediaIdOf(r) /\ sheet[r].status = SCHEDULED

====
